---- MODULE Spec2Model ----
(***************************************************************************)
(* Model of the MCP host: the protocol client (src/src/mcp_client.py) and  *)
(* the chat orchestrator (src/src/host.py).                                *)
(*                                                                         *)
(* Two specifications share this module:                                   *)
(*   SessionSpec  one MCPClient object, its channel and the messages on it *)
(*   Spec         the chat() function: startup, shortcut commands and the  *)
(*                model-driven tool-calling turn                           *)
(*   RenderSpec   render_tool_result applied to one tool result, for the   *)
(*                terminal and for the tool-role message                   *)
(***************************************************************************)
EXTENDS Integers, Sequences, FiniteSets, TLC

VARIABLES
    \* ---- one MCPClient and its channel (SessionSpec) ----
    session,      \* the MCPClient object: state, transport, http settings
    child,        \* the process behind self.proc: alive, stdout, stderr
    wire,         \* every message written to and read from the channel
    ret,          \* what the latest constructor/list_tools/call gave its caller
    uuid,         \* number of identifiers _id() has produced
    ninv,         \* number of list_tools/call invocations made
    nclose,       \* number of close() calls made
    \* ---- chat() of host.py (Spec) ----
    pc,           \* where chat() stands
    idx,          \* position in SERVERS of the startup loop
    clients,      \* keys of the clients dict: the servers that have a session
    closed,       \* servers whose session had close() called
    ctor,         \* the latest MCPClient(...) attempt of the startup loop
    REMOTE_SUPABASE_TOOL_NAMES,
    OPENAI_TOOLS, \* names of the descriptors offered to the model, in order
    memory,       \* roles of the entries of the conversation memory
    echo,         \* the latest text on the terminal
    tool_calls,   \* ids of the tool calls the model requested in this turn
    tool_results_msgs,
    last,         \* the latest tool call the loop body handled
    crash,        \* the exception that left chat(), "" while there is none
    messages,     \* the messages of the latest chat.completions.create call
    completions,  \* the chat.completions.create calls of the latest turn
    \* ---- render_tool_result (RenderSpec) ----
    result,       \* the tool result handed to render_tool_result
    shown,        \* what typer.echo(render_tool_result(result)) displayed
    tool_message, \* the content of the tool-role message built from result
    nrender,      \* number of renderings made
    \* ---- the path wrappers on either platform (PathSpec) ----
    os_name,      \* which os.path the interpreter has: "posix" or "nt"
    issued,       \* the tool call handed to the router
    routed,       \* what the router did with it
    \* ---- the bundled Supabase server (ServerSpec) ----
    posted,       \* the JSON body POSTed to /mcp
    upstream,     \* how the Supabase API answers the handler's requests, in order
    answer        \* the HTTP status and body handle_mcp returned

sessVars == <<session, child, wire, ret, uuid, ninv, nclose>>

hostVars == <<pc, idx, clients, closed, ctor, REMOTE_SUPABASE_TOOL_NAMES,
              OPENAI_TOOLS, memory, echo, tool_calls, tool_results_msgs, last, crash,
              messages, completions>>

renderVars == <<result, shown, tool_message, nrender>>

pathVars == <<os_name, issued, routed>>

serverVars == <<posted, upstream, answer>>

vars == <<session, child, wire, ret, uuid, ninv, nclose,
          pc, idx, clients, closed, ctor, REMOTE_SUPABASE_TOOL_NAMES,
          OPENAI_TOOLS, memory, echo, tool_calls, tool_results_msgs, last, crash,
          messages, completions,
          result, shown, tool_message, nrender,
          os_name, issued, routed,
          posted, upstream, answer>>

(***************************************************************************)
(* Bounds                                                                  *)
(***************************************************************************)
\* list_tools/call invocations made on the session under study
MaxInvocations == 3
\* close() calls made on the session under study
MaxCloses == 2
\* renderings made of the tool result under study
MaxRenders == 3
\* tool calls the model requests in one turn
MaxToolCalls == 2
\* natural-language turns that reach the model
MaxTurns == 2

(***************************************************************************)
(* mcp_client.py: messages                                                 *)
(***************************************************************************)
Last(s) == s[Len(s)]

\* _id() as a bug would have it: the same identifier every time
_id_constant(n) == 1

\* _id(): a new uuid4; the n-th identifier of the process is modelled as n
_id(n) == n + 1

InitializeRequest(id) ==
    [jsonrpc |-> "2.0", id |-> id, method |-> "initialize",
     params |-> [protocolVersion |-> "2024-11-05", clientInfo |-> "host-cli",
                 capabilities |-> {}]]

InitializedNotification ==
    [jsonrpc |-> "2.0", method |-> "notifications/initialized", params |-> {}]

ListRequest(id) ==
    [jsonrpc |-> "2.0", id |-> id, method |-> "tools/list", params |-> {}]

CallRequest(id, name, arguments) ==
    [jsonrpc |-> "2.0", id |-> id, method |-> "tools/call",
     params |-> [name |-> name, arguments |-> arguments]]

IsRequest(m) == m.method \in {"initialize", "tools/list", "tools/call"}

(***************************************************************************)
(* The peer of a channel.  A stdio child answers a request by writing      *)
(* lines to its stdout, or by exiting; an http endpoint answers a POST.    *)
(***************************************************************************)
\* the response envelope a server writes for the request with this id
ServerReply(id) == [jsonrpc |-> "2.0", id |-> id, result |-> "result"]

JsonLine(e) == [text |-> "json", env |-> e]
GarbageLine == [text |-> "garbage"]
EOF         == [text |-> ""]

NoChild == [spawned |-> FALSE, alive |-> FALSE, stdout |-> <<>>,
            errlog |-> <<>>, errpos |-> 0, sigterm |-> FALSE]

\* subprocess.Popen: the child right after it was spawned
Popen == [spawned |-> TRUE, alive |-> TRUE, stdout |-> <<>>,
          errlog |-> <<>>, errpos |-> 0, sigterm |-> FALSE]

\* what a child does with one request line it has read from its stdin
ChildBehaviours ==
    {"reply", "warn_reply", "malformed", "log_then_reply", "exit", "exit_silent",
     "reply_then_exit"}

ChildReact(ch, req, beh) ==
    CASE beh = "reply" ->
           [ch EXCEPT !.stdout = Append(@, JsonLine(ServerReply(req.id)))]
      [] beh = "warn_reply" ->
           [ch EXCEPT !.stdout = Append(@, JsonLine(ServerReply(req.id))),
                      !.errlog = Append(@, "warning")]
      [] beh = "malformed" ->
           [ch EXCEPT !.stdout = Append(@, GarbageLine)]
      [] beh = "log_then_reply" ->
           [ch EXCEPT !.stdout = @ \o <<GarbageLine, JsonLine(ServerReply(req.id))>>]
      [] beh = "exit" ->
           [ch EXCEPT !.alive = FALSE, !.errlog = Append(@, "traceback")]
      [] beh = "exit_silent" ->
           [ch EXCEPT !.alive = FALSE]
      [] beh = "reply_then_exit" ->
           [ch EXCEPT !.stdout = Append(@, JsonLine(ServerReply(req.id))),
                      !.alive = FALSE]

\* outcomes of one requests.post
HttpOutcomes == {"json", "204", "network", "status", "notjson"}
\* a network failure, a non-2xx status, a body that is not JSON
HttpFailures == {"network", "status", "notjson"}

(***************************************************************************)
(* mcp_client.py: what an operation gives its caller                       *)
(***************************************************************************)
NoEnvelope == [jsonrpc |-> "", id |-> 0]

Returned(e) == [kind |-> "envelope", env |-> e, err |-> "", stderr |-> <<>>]
Raised(err) == [kind |-> "raise", env |-> NoEnvelope, err |-> err, stderr |-> <<>>]
ReturnedNone == [kind |-> "none", env |-> NoEnvelope, err |-> "", stderr |-> <<>>]
RaisedNoResponse(buf) ==
    [kind |-> "raise", env |-> NoEnvelope, err |-> "Sin respuesta del servidor",
     stderr |-> buf]

\* _send_stdio: write one line and flush; a dead child breaks the pipe
_send_stdio(ch, obj) ==
    IF ch.alive THEN [ok |-> TRUE,  sent |-> <<[op |-> "send", msg |-> obj]>>]
                ELSE [ok |-> FALSE, sent |-> <<>>]

\* the line readline() gives: the oldest unread line, or "" at end of stream
Readline(ch) == IF ch.stdout = <<>> THEN EOF ELSE Head(ch.stdout)

\* _read_stdio as a bug would have it: the error of an empty read leaves
\* stderr out
_read_stdio_no_stderr(ch) ==
    LET line == IF ch.stdout = <<>> THEN EOF ELSE Head(ch.stdout) IN
    IF line = EOF
      THEN [ch  |-> ch, ret |-> RaisedNoResponse(<<>>)]
      ELSE [ch  |-> [ch EXCEPT !.stdout = Tail(@)],
            ret |-> IF line.text = "json" THEN Returned(line.env)
                                          ELSE Raised("JSONDecodeError")]

\* _read_stdio: read one line; raise on an empty read, else json.loads it
_read_stdio(ch) ==
    LET line == Readline(ch) IN
    IF line = EOF
      THEN [ch  |-> [ch EXCEPT !.errpos = Len(ch.errlog)],
            ret |-> RaisedNoResponse(SubSeq(ch.errlog, ch.errpos + 1, Len(ch.errlog)))]
      ELSE [ch  |-> [ch EXCEPT !.stdout = Tail(@)],
            ret |-> IF line.text = "json" THEN Returned(line.env)
                                          ELSE Raised("JSONDecodeError")]

\* the record of one readline() on the wire
ReadEvent(ch) == [op |-> "read", line |-> Readline(ch)]

\* the record of one requests.post on the wire: the response and what
\* _send_http made of it (an exception, the acknowledgment built for a 204, or
\* the body parsed by response.json())
HttpEvent(net, r) ==
    [op |-> "http", outcome |-> net,
     gave |-> IF r.kind = "raise" THEN "raise"
              ELSE IF "jsonrpc" \in DOMAIN r.env THEN "parsed" ELSE "ack"]

\* {"result": "notification sent"} (line 119)
Acknowledgment == [result |-> "notification sent"]

\* _send_http as a bug would have it: a failed POST clears the session's url
_send_http_poison(sess, obj, net) ==
    LET r == CASE net = "204"  -> Returned(Acknowledgment)
               [] net = "json" /\ sess.base_url # "" ->
                    Returned(ServerReply(IF "id" \in DOMAIN obj THEN obj.id ELSE 0))
               [] OTHER        -> Raised("RuntimeError")
    IN
    [sess |-> IF net \in HttpFailures THEN [sess EXCEPT !.base_url = ""] ELSE sess,
     wire |-> <<[op |-> "send", msg |-> obj], HttpEvent(net, r)>>,
     ret  |-> r]

\* _send_http as a bug would have it: there is no branch for status 204, so
\* the empty body goes to response.json()
_send_http_no_204(sess, obj, net) ==
    LET r == CASE net = "json" -> Returned(ServerReply(IF "id" \in DOMAIN obj
                                                       THEN obj.id ELSE 0))
               [] OTHER        -> Raised("RuntimeError")
    IN
    [sess |-> sess, wire |-> <<[op |-> "send", msg |-> obj], HttpEvent(net, r)>>,
     ret  |-> r]

\* _send_http: one POST; 204 is an acknowledgment, errors become RuntimeError
_send_http(sess, obj, net) ==
    LET r == CASE net = "204"  -> Returned(Acknowledgment)
               [] net = "json" -> Returned(ServerReply(IF "id" \in DOMAIN obj
                                                       THEN obj.id ELSE 0))
               [] OTHER        -> Raised("RuntimeError")
    IN
    [sess |-> sess, wire |-> <<[op |-> "send", msg |-> obj], HttpEvent(net, r)>>,
     ret  |-> r]

\* the round trip as a bug would have it: the request is written and the
\* method returns without reading the response
StdioRoundTripNoRead(ch, request, beh) ==
    LET w == _send_stdio(ch, request) IN
    IF ~w.ok
      THEN [ch |-> ch, wire |-> <<>>, ret |-> Raised("BrokenPipeError")]
      ELSE [ch |-> ChildReact(ch, request, beh), wire |-> w.sent,
            ret |-> Returned(NoEnvelope)]

\* send a request and read its response on stdio (list_tools/call, lines 138-140)
StdioRoundTrip(ch, request, beh) ==
    LET w == _send_stdio(ch, request) IN
    IF ~w.ok
      THEN [ch |-> ch, wire |-> <<>>, ret |-> Raised("BrokenPipeError")]
      ELSE LET ch1 == ChildReact(ch, request, beh)
               r   == _read_stdio(ch1)
           IN  [ch |-> r.ch, wire |-> w.sent \o <<ReadEvent(ch1)>>, ret |-> r.ret]

\* self.proc.terminate(): a running child gets SIGTERM; for a child that is
\* gone it does nothing, or fails where the platform reports the missing process
terminate(ch, fault) ==
    IF ch.alive THEN [ch |-> [ch EXCEPT !.alive = FALSE, !.sigterm = TRUE], exc |-> ""]
    ELSE [ch |-> ch, exc |-> IF fault THEN "OSError" ELSE ""]

\* close() as a bug would have it: terminate() is called outside try/except
close_unguarded(sess, ch, fault) ==
    IF sess.transport = "stdio" /\ ch.spawned
      THEN LET t == terminate(ch, fault) IN
           [ch |-> t.ch, ret |-> IF t.exc = "" THEN ReturnedNone ELSE Raised(t.exc)]
      ELSE [ch |-> ch, ret |-> ReturnedNone]

\* close(): on stdio terminate the child inside try/except; nothing on http
close(sess, ch, fault) ==
    IF sess.transport = "stdio" /\ ch.spawned
      THEN [ch |-> terminate(ch, fault).ch, ret |-> ReturnedNone]
      ELSE [ch |-> ch, ret |-> ReturnedNone]

(***************************************************************************)
(* mcp_client.py: MCPClient.__init__                                       *)
(***************************************************************************)
\* the entry of mcp_config.json found for server_name (None when there is none)
ConfigEntries ==
    { [found |-> FALSE, transport |-> "",      command |-> FALSE, url |-> ""],
      [found |-> TRUE,  transport |-> "stdio", command |-> TRUE,  url |-> ""],
      [found |-> TRUE,  transport |-> "",      command |-> TRUE,  url |-> ""],
      [found |-> TRUE,  transport |-> "stdio", command |-> FALSE, url |-> ""],
      [found |-> TRUE,  transport |-> "http",  command |-> FALSE, url |-> "http://host"],
      [found |-> TRUE,  transport |-> "http",  command |-> FALSE, url |-> ""],
      [found |-> TRUE,  transport |-> "sse",   command |-> FALSE, url |-> "http://host"] }

\* the transport read with no default for an entry that names none
TransportOf_strict(match) == match.transport

\* match.get("transport", "stdio")
TransportOf(match) == IF match.transport = "" THEN "stdio" ELSE match.transport

NoSession == [state |-> "none", transport |-> "", base_url |-> "",
              endpoint |-> "", timeout |-> 0]

\* what the environment does while a stdio session is constructed
StdioEnvs == [spawn : {"ok", "fail", "exits"}, onInit : ChildBehaviours]
\* what the endpoint answers to the two POSTs of an http construction
HttpEnvs  == [p1 : HttpOutcomes, p2 : HttpOutcomes]

\* the part of the environment a construction for this entry can meet
DefaultStdioEnv == [spawn |-> "ok", onInit |-> "reply"]
DefaultHttpEnv  == [p1 |-> "json", p2 |-> "204"]
ConstructionEnvs ==
    { e \in [match : ConfigEntries, senv : StdioEnvs, henv : HttpEnvs] :
        /\ (e.match.found /\ e.match.command /\ e.match.transport \in {"", "stdio"})
             \/ e.senv = DefaultStdioEnv
        /\ (e.match.found /\ e.match.url # "" /\ e.match.transport = "http")
             \/ e.henv = DefaultHttpEnv }

Failed(at, ch, w, r, n) ==
    [ok |-> FALSE, failedAt |-> at, ch |-> ch, wire |-> w, ret |-> r, uuid |-> n]

\* _init_stdio as a bug would have it: the notification is written before the
\* response to initialize is read
_init_stdio_notify_first(config, env, n) ==
    IF ~config.command THEN Failed("config", NoChild, <<>>, Raised("KeyError"), n)
    ELSE IF env.spawn = "fail" THEN Failed("spawn", NoChild, <<>>, Raised("OSError"), n)
    ELSE
      LET ch0 == IF env.spawn = "exits"
                   THEN [Popen EXCEPT !.alive = FALSE, !.errlog = <<"traceback">>]
                   ELSE Popen
          req == InitializeRequest(_id(n))
          w1  == _send_stdio(ch0, req)
          w2  == _send_stdio(ch0, InitializedNotification)
      IN
      IF ~w1.ok
        THEN Failed("send_initialize", ch0, <<>>, Raised("BrokenPipeError"), n + 1)
        ELSE
          LET ch1 == ChildReact(ch0, req, env.onInit)
              r   == _read_stdio(ch1)
              rd  == w1.sent \o w2.sent \o <<ReadEvent(ch1)>>
          IN
          IF r.ret.kind = "raise"
            THEN Failed("read_initialize", r.ch, rd, r.ret, n + 1)
            ELSE [ok |-> TRUE, failedAt |-> "", ch |-> r.ch, wire |-> rd,
                  ret |-> r.ret, uuid |-> n + 1]

\* _init_stdio: spawn the child, then initialize / response / initialized
_init_stdio(config, env, n) ==
    IF ~config.command THEN Failed("config", NoChild, <<>>, Raised("KeyError"), n)
    ELSE IF env.spawn = "fail" THEN Failed("spawn", NoChild, <<>>, Raised("OSError"), n)
    ELSE
      LET ch0 == IF env.spawn = "exits"
                   THEN [Popen EXCEPT !.alive = FALSE, !.errlog = <<"traceback">>]
                   ELSE Popen
          req == InitializeRequest(_id(n))
          w1  == _send_stdio(ch0, req)
      IN
      IF ~w1.ok
        THEN Failed("send_initialize", ch0, <<>>, Raised("BrokenPipeError"), n + 1)
        ELSE
          LET ch1 == ChildReact(ch0, req, env.onInit)
              r   == _read_stdio(ch1)
              w2  == _send_stdio(r.ch, InitializedNotification)
              rd  == w1.sent \o <<ReadEvent(ch1)>>
          IN
          IF r.ret.kind = "raise"
            THEN Failed("read_initialize", r.ch, rd, r.ret, n + 1)
          ELSE IF ~w2.ok
            THEN Failed("send_initialized", r.ch, rd, Raised("BrokenPipeError"), n + 1)
          ELSE [ok |-> TRUE, failedAt |-> "", ch |-> r.ch, wire |-> rd \o w2.sent,
                ret |-> r.ret, uuid |-> n + 1]

\* the http settings _init_http stores on the object
HttpSession(config) ==
    [state |-> "ready", transport |-> "http", base_url |-> config.url,
     endpoint |-> "/mcp", timeout |-> 30]

\* _init_http as a bug would have it: both POSTs sit inside the try/except
_init_http_swallow_all(config, env, n) ==
    IF config.url = "" THEN Failed("config", NoChild, <<>>, Raised("MCPConfigError"), n)
    ELSE
      LET sess == HttpSession(config)
          r1   == _send_http(sess, InitializeRequest(_id(n)), env.p1)
          r2   == _send_http(r1.sess, InitializedNotification, env.p2)
      IN [ok |-> TRUE, failedAt |-> "", ch |-> NoChild, wire |-> r1.wire \o r2.wire,
          ret |-> r1.ret, uuid |-> n + 1]

\* _init_http: check the url, POST initialize, POST initialized inside try/except
_init_http(config, env, n) ==
    IF config.url = "" THEN Failed("config", NoChild, <<>>, Raised("MCPConfigError"), n)
    ELSE
      LET sess == HttpSession(config)
          r1   == _send_http(sess, InitializeRequest(_id(n)), env.p1)
          r2   == _send_http(r1.sess, InitializedNotification, env.p2)
      IN
      IF r1.ret.kind = "raise"
        THEN Failed("initialize", NoChild, r1.wire, r1.ret, n + 1)
        ELSE [ok |-> TRUE, failedAt |-> "", ch |-> NoChild, wire |-> r1.wire \o r2.wire,
              ret |-> r1.ret, uuid |-> n + 1]

\* MCPClient.__init__: find the entry, pick the transport, run its handshake
MCPClient(match, senv, henv, n) ==
    IF ~match.found THEN Failed("config", NoChild, <<>>, Raised("MCPConfigError"), n)
    ELSE IF TransportOf(match) = "stdio" THEN _init_stdio(match, senv, n)
    ELSE IF TransportOf(match) = "http"  THEN _init_http(match, henv, n)
    ELSE Failed("config", NoChild, <<>>, Raised("MCPConfigError"), n)

\* the object the constructor leaves behind when it returns
SessionOf(match) ==
    IF TransportOf(match) = "http" THEN HttpSession(match)
    ELSE [state |-> "ready", transport |-> "stdio", base_url |-> "",
          endpoint |-> "", timeout |-> 0]

(***************************************************************************)
(* host.py: the catalog, the routing tables and the state chat() starts in *)
(***************************************************************************)
\* SERVERS (line 289)
SERVERS == <<"SQLScout", "FS", "Git", "Supabase">>
ServerNames == {SERVERS[i] : i \in 1..Len(SERVERS)}

\* names of the descriptors of OPENAI_TOOLS as the module declares them
StaticTools ==
    <<"sql_load", "sql_explain", "sql_diagnose", "sql_optimize", "sql_apply",
      "sql_optimize_apply", "mcp_run",
      "fs_write_text", "fs_list", "git_init_here", "git_add_files",
      "git_commit_msg", "git_status_here", "git_log_here", "fs_read_text",
      "supabase_create_user", "supabase_send_magic_link", "supabase_list_policies",
      "supabase_set_role", "supabase_user_stats", "supabase_bulk_invite">>

\* OPENAI_TO_MCP (lines 206-213)
OPENAI_TO_MCP ==
    [sql_load |-> "sql.load", sql_explain |-> "sql.explain",
     sql_diagnose |-> "sql.diagnose", sql_optimize |-> "sql.optimize",
     sql_apply |-> "sql.apply", sql_optimize_apply |-> "sql.optimize_apply"]

\* the tool each supabase_* descriptor is forwarded to (lines 496-507)
SupabaseForward ==
    [supabase_create_user |-> "create_user",
     supabase_send_magic_link |-> "send_magic_link",
     supabase_list_policies |-> "list_policies",
     supabase_set_role |-> "set_user_role",
     supabase_user_stats |-> "get_user_stats",
     supabase_bulk_invite |-> "bulk_invite_users"]

\* the "required" list of each descriptor of OPENAI_TOOLS; a descriptor
\* imported from the remote server is taken as requiring nothing
Required(name) ==
    CASE name = "sql_load" -> {"schema"}
      [] name \in {"sql_explain", "sql_diagnose", "sql_optimize"} -> {"query"}
      [] name = "sql_apply" -> {"ddl"}
      [] name = "sql_optimize_apply" -> {"query", "ddl"}
      [] name = "mcp_run" -> {"server", "name", "arguments"}
      [] name = "fs_write_text" -> {"relative_path", "content"}
      [] name \in {"fs_list", "fs_read_text"} -> {"relative_path"}
      [] name = "git_add_files" -> {"files"}
      [] name = "git_commit_msg" -> {"message"}
      [] name = "supabase_create_user" -> {"email", "password"}
      [] name = "supabase_send_magic_link" -> {"email"}
      [] name = "supabase_list_policies" -> {"schema_name"}
      [] name = "supabase_set_role" -> {"user_id", "role"}
      [] name = "supabase_bulk_invite" -> {"emails"}
      [] OTHER -> {}

NoCtor == [name |-> "", ok |-> FALSE, failedAt |-> "", spawned |-> FALSE,
           exc |-> "", sent |-> 0, alive |-> FALSE,
           env |-> [match |-> [found |-> FALSE, transport |-> "", command |-> FALSE,
                               url |-> ""],
                    senv |-> DefaultStdioEnv, henv |-> DefaultHttpEnv]]
NoCall == [name |-> "", args |-> <<>>, sent |-> <<>>, raised |-> "", content |-> <<>>,
           isError |-> FALSE, kind |-> "none"]
NoCrash == [exc |-> "", at |-> ""]

HostInit ==
    /\ pc = "start"
    /\ idx = 1
    /\ clients = {}
    /\ closed = {}
    /\ ctor = NoCtor
    /\ REMOTE_SUPABASE_TOOL_NAMES = {}
    /\ OPENAI_TOOLS = StaticTools
    /\ memory = <<>>
    /\ echo = <<>>
    /\ tool_calls = <<>>
    /\ tool_results_msgs = <<>>
    /\ last = NoCall
    /\ crash = NoCrash
    /\ messages = <<>>
    /\ completions = <<>>

\* Memory.add(role, content): the entry goes to the end of the ordered log
add(mem, role) == Append(mem, role)

\* the end of a turn with the tool-result messages remembered as well
RememberTurn_with_results(mem) == add(add(add(mem, "user"), "tool"), "assistant")

\* memory.add("user", user); memory.add("assistant", final_text)
\* (lines 538-539 and 545-546)
RememberTurn(mem) == add(add(mem, "user"), "assistant")

(***************************************************************************)
(* host.py: render_tool_result.  A JSON value is a tagged record; the text  *)
(* of a string is its sequence of characters, so that a "|" or a line break *)
(* inside a value is one in the rendered text as well.                      *)
(***************************************************************************)
Null == [t |-> "null"]
Num(n) == [t |-> "num", v |-> n]
Str(chars) == [t |-> "str", v |-> chars]
List(items) == [t |-> "list", v |-> items]
\* a dict keeps its keys in insertion order
Dict(keys, values) == [t |-> "dict", keys |-> keys, v |-> values]
EmptyDict == Dict(<<>>, <<>>)

Has(d, k) == \E i \in 1..Len(d.keys) : d.keys[i] = k
\* d.get(k, default)
DGet(d, k, default) ==
    IF Has(d, k) THEN d.v[CHOOSE i \in 1..Len(d.keys) : d.keys[i] = k] ELSE default

\* str(x) of a cell value
str(x) ==
    CASE x.t = "str" -> x.v
      [] x.t = "num" -> <<ToString(x.v)>>
      [] OTHER       -> <<"repr">>

\* sep.join(parts) on texts
RECURSIVE Join(_, _)
Join(parts, sep) ==
    IF parts = <<>> THEN <<>>
    ELSE IF Len(parts) = 1 THEN parts[1]
    ELSE parts[1] \o sep \o Join(Tail(parts), sep)

\* "| " + " | ".join(cells) + " |"
Row(cells) == <<"|">> \o Join(cells, <<"|">>) \o <<"|">>

\* what render_tool_result gives: the text, or for _pretty(x) the value dumped
Rendering(form, out, of) == [raised |-> "", form |-> form, out |-> out, of |-> of]
RenderRaised(exc) == [raised |-> exc, form |-> "", out |-> <<>>, of |-> Null]
NotRendered == [raised |-> "", form |-> "none", out |-> <<>>, of |-> Null]

\* [p.get("text","") for p in parts if isinstance(p, dict) and p.get("type")=="text"]
RECURSIVE Texts(_)
Texts(parts) ==
    IF parts = <<>> THEN <<>>
    ELSE LET q == Head(parts) IN
         (IF q.t = "dict" /\ DGet(q, "type", Null) = Str(<<"text">>)
            THEN <<DGet(q, "text", Str(<<>>)).v>> ELSE <<>>) \o Texts(Tail(parts))

\* the table of lines 37-41; r.get fails on an entry that is not a dict
Table(data) ==
    IF \E k \in 1..Len(data) : data[k].t # "dict" THEN RenderRaised("AttributeError")
    ELSE
      LET headers == data[1].keys
          n    == Len(headers)
          head == Row([i \in 1..n |-> <<headers[i]>>])
          sep  == Row([i \in 1..n |-> <<"---">>])
          rows == [k \in 1..Len(data) |->
                     Row([i \in 1..n |-> str(DGet(data[k], headers[i], Str(<<>>)))])]
      IN Rendering("table", Join(<<head, sep>> \o rows, <<"\n">>), Null)

render_tool_result(res) ==
    IF res.t # "dict" THEN RenderRaised("AttributeError")
    ELSE
      LET sc == DGet(res, "structuredContent", EmptyDict) IN
      IF sc.keys # <<>> /\ Has(sc, "result")
        THEN LET data == DGet(sc, "result", Null) IN
             IF data.t = "list" /\ data.v # <<>> /\ data.v[1].t = "dict"
               THEN Table(data.v)
               ELSE Rendering("json", <<>>, data)
        ELSE LET parts == DGet(res, "content", List(<<>>))
                 texts == IF parts.t = "list" THEN Texts(parts.v) ELSE <<>>
             IN IF texts # <<>> THEN Rendering("text", Join(texts, <<"\n">>), Null)
                                ELSE Rendering("json", <<>>, res)

\* no tool call has been handed to the router on its own
NoIssued == [name |-> "", args |-> <<>>]
NotRouted == [ran |-> FALSE, raised |-> "", sent |-> <<>>]
PathIdle ==
    /\ os_name = "posix"
    /\ issued = NoIssued
    /\ routed = NotRouted

\* nothing has been POSTed to the bundled server
NoPost == [jsonrpc |-> "", method |-> ""]
NoAnswer == [status |-> 0, body |-> [jsonrpc |-> ""]]
ServerIdle ==
    /\ posted = NoPost
    /\ upstream = <<>>
    /\ answer = NoAnswer

NoResult == Null
RenderIdle ==
    /\ result = NoResult
    /\ shown = NotRendered
    /\ tool_message = NotRendered
    /\ nrender = 0

(***************************************************************************)
(* SessionSpec: one MCPClient whose caller catches what it raises          *)
(* (host.py 292-296 for the constructor, 364-370 for call)                 *)
(***************************************************************************)
\* what the caller of an operation observes
Outcome(op, reqId, failedAt, r) ==
    [op |-> op, reqId |-> reqId, failedAt |-> failedAt, kind |-> r.kind,
     env |-> r.env, err |-> r.err, stderr |-> r.stderr]

NoOutcome == Outcome("none", 0, "", Raised(""))

SessionIdle ==
    /\ session = NoSession
    /\ child = NoChild
    /\ wire = <<>>
    /\ ret = NoOutcome
    /\ uuid = 0
    /\ ninv = 0
    /\ nclose = 0

SessionInit == SessionIdle /\ HostInit /\ RenderIdle /\ PathIdle /\ ServerIdle

\* clients[name] = MCPClient(server_name=name) inside try/except
NewMCPClient ==
    /\ session.state = "none"
    /\ \E e \in ConstructionEnvs :
         LET c == MCPClient(e.match, e.senv, e.henv, uuid) IN
         /\ session' = IF c.ok THEN SessionOf(e.match)
                       ELSE [NoSession EXCEPT !.state = "failed"]
         /\ child' = c.ch
         /\ wire' = c.wire
         /\ ret' = Outcome("init", _id(uuid), c.failedAt, c.ret)
         /\ uuid' = c.uuid
    /\ UNCHANGED <<ninv, nclose, hostVars, renderVars, pathVars, serverVars>>

\* list_tools / call: build the request, then one round trip on the transport
Invoke(op, request) ==
    /\ session.state = "ready"
    /\ ninv < MaxInvocations
    /\ IF session.transport = "stdio"
         THEN \E beh \in ChildBehaviours :
                LET rt == StdioRoundTrip(child, request, beh) IN
                /\ child' = rt.ch
                /\ wire' = wire \o rt.wire
                /\ ret' = Outcome(op, request.id, "", rt.ret)
                /\ session' = session
         ELSE \E net \in HttpOutcomes :
                LET rt == _send_http(session, request, net) IN
                /\ session' = rt.sess
                /\ wire' = wire \o rt.wire
                /\ ret' = Outcome(op, request.id, "", rt.ret)
                /\ child' = child
    /\ uuid' = uuid + 1
    /\ ninv' = ninv + 1
    /\ UNCHANGED <<nclose, hostVars, renderVars, pathVars, serverVars>>

list_tools == Invoke("list", ListRequest(_id(uuid)))

call == \E name \in {"sql.load", "git_add"} :
           Invoke("call", CallRequest(_id(uuid), name, {}))

\* c.close() on a constructed session
Close ==
    /\ session.state = "ready"
    /\ nclose < MaxCloses
    /\ \E fault \in BOOLEAN :
         LET c == close(session, child, fault) IN
         /\ child' = c.ch
         /\ ret' = Outcome("close", 0, "", c.ret)
    /\ nclose' = nclose + 1
    /\ UNCHANGED <<session, wire, uuid, ninv, hostVars, renderVars, pathVars, serverVars>>

SessionNext == NewMCPClient \/ list_tools \/ call \/ Close

SessionSpec == SessionInit /\ [][SessionNext]_vars

(***************************************************************************)
(* host.py: executors and the router of the tool-calling loop              *)
(***************************************************************************)
\* a decoded JSON object is a record; {} is the record with no field
EmptyArgs == <<>>
Get(args, k, default) == IF k \in DOMAIN args THEN args[k] ELSE default

\* what a session's call() gives the host: an exception, or an envelope that
\* holds a result object, a JSON-RPC error object, or the 204 acknowledgment
CallResults == {"raise", "result", "rpc_error", "ack"}

NoResp == [kind |-> "none", isError |-> FALSE, text |-> <<>>]
\* {"content":[{"type":"text","text":...}],"isError":True}
LocalError(text) == [kind |-> "local", isError |-> TRUE, text |-> text]

RaisedIn(exc) == [raised |-> exc, sent |-> <<>>, resp |-> NoResp]
Gave(resp)    == [raised |-> "",  sent |-> <<>>, resp |-> resp]

\* clients[server].call(tool, arguments): KeyError without that session
SessionCall(cl, server, tool, arguments, res) ==
    IF server \notin cl THEN RaisedIn("KeyError")
    ELSE [raised |-> IF res = "raise" THEN "RuntimeError" ELSE "",
          sent   |-> <<[server |-> server, name |-> tool, arguments |-> arguments]>>,
          resp   |-> IF res = "raise" THEN NoResp
                     ELSE [kind |-> res, isError |-> FALSE, text |-> <<>>]]

\* _exec_mcp_sql as a bug would have it: a name the table lacks is forwarded
_exec_mcp_sql_unmapped(cl, tool_name, args, res) ==
    SessionCall(cl, "SQLScout",
                IF tool_name \in DOMAIN OPENAI_TO_MCP THEN OPENAI_TO_MCP[tool_name]
                                                       ELSE tool_name,
                args, res)

_exec_mcp_sql(cl, tool_name, args, res) ==
    IF tool_name \notin DOMAIN OPENAI_TO_MCP
      THEN Gave(LocalError(<<"Tool no mapeada a MCP (SQLScout)", tool_name>>))
      ELSE SessionCall(cl, "SQLScout", OPENAI_TO_MCP[tool_name], args, res)

exec_mcp_generic(cl, server, name, arguments, res) ==
    IF server \notin cl
      THEN Gave(LocalError(<<"Servidor no esta configurado", server>>))
      ELSE SessionCall(cl, server, name, arguments, res)

\* A path text is its drive prefix ("" when it has none), whether a separator
\* follows, and its "/"-separated segments, each a sequence of tokens
PathText(drive, rooted, segs) == [drive |-> drive, rooted |-> rooted, segs |-> segs]
DotPath == PathText("", FALSE, << <<".">> >>)

\* os.path.splitdrive: ntpath takes "D:" as a drive, posixpath has no drives,
\* so there the prefix is the beginning of the first segment
splitdrive(os, p) ==
    IF os = "nt" \/ p.drive = "" THEN p
    ELSE IF p.rooted \/ p.segs = <<>>
      THEN PathText("", FALSE, << <<p.drive>> >> \o p.segs)
      ELSE PathText("", FALSE, << <<p.drive>> \o Head(p.segs) >> \o Tail(p.segs))

\* os.path.join(a, b): b replaces a when it is rooted (posixpath) or names
\* another drive (ntpath); a rooted b on ntpath keeps a's drive
join(os, a, b) ==
    LET q == splitdrive(os, b) IN
    IF q.drive # "" /\ q.drive # a.drive THEN q
    ELSE IF q.rooted THEN PathText(a.drive, TRUE, q.segs)
    ELSE PathText(a.drive, a.rooted, a.segs \o q.segs)

\* the segments normpath keeps: "" and "." dropped, ".." takes the segment
\* before it away, is dropped at the root and kept at the start otherwise
RECURSIVE Collapse(_, _, _)
Collapse(segs, kept, rooted) ==
    IF segs = <<>> THEN kept
    ELSE LET g == Head(segs) IN
         IF g = <<>> \/ g = <<".">> THEN Collapse(Tail(segs), kept, rooted)
         ELSE IF g = <<"..">> THEN
              IF kept # <<>> /\ kept[Len(kept)] # <<"..">>
                THEN Collapse(Tail(segs), SubSeq(kept, 1, Len(kept) - 1), rooted)
              ELSE IF rooted THEN Collapse(Tail(segs), kept, rooted)
              ELSE Collapse(Tail(segs), Append(kept, g), rooted)
         ELSE Collapse(Tail(segs), Append(kept, g), rooted)

\* os.path.normpath
normpath(p) == PathText(p.drive, p.rooted, Collapse(p.segs, <<>>, p.rooted))

\* _settings() (lines 12-18): the two roots of the environment
WORKSPACE_ROOT == PathText(IF os_name = "nt" THEN "C:" ELSE "", TRUE, << <<"ws">> >>)
REPO_ROOT == "REPO_ROOT"

\* os.path.normpath(os.path.join(WS, relative_path))
AbsPath(relative_path) == normpath(join(os_name, WORKSPACE_ROOT, relative_path))

_exec_fs_write_text(cl, relative_path, content, res) ==
    SessionCall(cl, "FS", "write_file",
                [path |-> AbsPath(relative_path), content |-> content], res)
_exec_fs_list(cl, relative_path, res) ==
    SessionCall(cl, "FS", "list_directory", [path |-> AbsPath(relative_path)], res)
_exec_fs_read_text(cl, relative_path, res) ==
    SessionCall(cl, "FS", "read_text_file", [path |-> AbsPath(relative_path)], res)
_exec_git_init_here(cl, res) ==
    SessionCall(cl, "Git", "git_init", [repo_path |-> REPO_ROOT], res)
_exec_git_add_all(cl, res) ==
    SessionCall(cl, "Git", "git_add", [repo_path |-> REPO_ROOT, files |-> << <<".">> >>], res)
_exec_git_commit_msg(cl, message, res) ==
    SessionCall(cl, "Git", "git_commit",
                [repo_path |-> REPO_ROOT, message |-> message], res)
_exec_git_status_here(cl, res) ==
    SessionCall(cl, "Git", "git_status", [repo_path |-> REPO_ROOT], res)
_exec_git_log_here(cl, max_count, res) ==
    SessionCall(cl, "Git", "git_log",
                [repo_path |-> REPO_ROOT, max_count |-> max_count], res)

\* paths are sequences of characters
StartsWith(s, p) == Len(s) >= Len(p) /\ SubSeq(s, 1, Len(p)) = p
EndsWith(s, p) == Len(s) >= Len(p) /\ SubSeq(s, Len(s) - Len(p) + 1, Len(s)) = p
BLOCKLIST_PREFIXES ==
    { <<".", "g", "i", "t">>, <<"_", "g", "i", "t">>,
      <<"_", "_", "p", "y", "c", "a", "c", "h", "e", "_", "_">> }
BLOCKLIST_EXT ==
    { <<".", "p", "y", "c">>, <<".", "p", "y", "o">>, <<".", "p", "y", "d">>,
      <<".", "l", "o", "g">> }

RECURSIVE LStripSlash(_)
LStripSlash(s) == IF s # <<>> /\ Head(s) = "/" THEN LStripSlash(Tail(s)) ELSE s
\* (f or "").replace("\\", "/").lstrip("/")
RelPath(f) == LStripSlash([i \in 1..Len(f) |-> IF f[i] = "\\" THEN "/" ELSE f[i]])
\* the test of line 248 as a bug would have it: the extensions are not tested
Blocked_prefixes_only(rp) ==
    \/ rp = <<>>
    \/ \E q \in BLOCKLIST_PREFIXES : StartsWith(rp, q)

Blocked(rp) ==
    \/ rp = <<>>
    \/ \E q \in BLOCKLIST_PREFIXES : StartsWith(rp, q)
    \/ \E e \in BLOCKLIST_EXT : EndsWith(rp, e)

RECURSIVE SafeFiles(_)
SafeFiles(files) ==
    IF files = <<>> THEN <<>>
    ELSE LET rp == RelPath(Head(files)) IN
         (IF Blocked(rp) THEN <<>> ELSE <<rp>>) \o SafeFiles(Tail(files))

_exec_git_add_files(cl, files, res) ==
    LET safe == SafeFiles(files) IN
    IF safe = <<>>
      THEN Gave(LocalError(<<"No hay archivos validos para agregar">>))
      ELSE SessionCall(cl, "Git", "git_add",
                       [repo_path |-> REPO_ROOT, files |-> safe], res)

\* args["k"] for every k of ks would not raise KeyError
HasAll(args, ks) == ks \subseteq DOMAIN args

\* the if/elif chain of the tool-calling loop (lines 470-520), in its order
Dispatch(cl, remote, t_name, args, res) ==
    IF t_name = "fs_write_text" THEN
         IF HasAll(args, {"relative_path", "content"})
           THEN _exec_fs_write_text(cl, args.relative_path, args.content, res)
           ELSE RaisedIn("KeyError")
    ELSE IF t_name = "fs_list" THEN
         _exec_fs_list(cl, Get(args, "relative_path", DotPath), res)
    ELSE IF t_name = "git_init_here" THEN _exec_git_init_here(cl, res)
    ELSE IF t_name = "git_add_all" THEN _exec_git_add_all(cl, res)
    ELSE IF t_name = "git_commit_msg" THEN
         IF HasAll(args, {"message"})
           THEN _exec_git_commit_msg(cl, args.message, res)
           ELSE RaisedIn("KeyError")
    ELSE IF t_name = "git_status_here" THEN _exec_git_status_here(cl, res)
    ELSE IF t_name = "git_log_here" THEN
         _exec_git_log_here(cl, Get(args, "max_count", 5), res)
    ELSE IF t_name = "fs_read_text" THEN
         IF HasAll(args, {"relative_path"})
           THEN _exec_fs_read_text(cl, args.relative_path, res)
           ELSE RaisedIn("KeyError")
    ELSE IF t_name = "git_add_files" THEN
         _exec_git_add_files(cl, Get(args, "files", <<>>), res)
    ELSE IF t_name \in remote THEN
         exec_mcp_generic(cl, "Supabase", t_name, args, res)
    ELSE IF t_name \in DOMAIN SupabaseForward THEN
         exec_mcp_generic(cl, "Supabase", SupabaseForward[t_name], args, res)
    ELSE IF t_name = "mcp_run" THEN
         IF HasAll(args, {"server", "name"})
           THEN exec_mcp_generic(cl, args.server, args.name,
                                 Get(args, "arguments", EmptyArgs), res)
           ELSE RaisedIn("KeyError")
    ELSE _exec_mcp_sql(cl, t_name, args, res)

\* a JSON-RPC error object: an envelope with no result member
ErrorEnvelope ==
    Dict(<<"jsonrpc", "id", "error">>,
         <<Str(<<"2.0">>), Num(1),
           Dict(<<"code", "message">>, <<Num(-32601), Str(<<"Method not found">>)>>)>>)

\* render_tool_result(mcp_resp.get("result", mcp_resp)) on the error object
RenderedEnvelope ==
    LET r == render_tool_result(DGet(ErrorEnvelope, "result", ErrorEnvelope)) IN
    [raised  |-> r.raised,
     content |-> IF r.raised = "" /\ r.form = "json" /\ r.of = ErrorEnvelope
                   THEN <<"envelope as JSON">> ELSE r.out]

\* the loop body as a bug would have it: mcp_resp["result"], which an envelope
\* with no result member does not have
RenderedContent_result_required(resp) ==
    CASE resp.kind = "local"     -> [raised |-> "", content |-> resp.text]
      [] resp.kind = "result"    -> [raised |-> "", content |-> <<"result text">>]
      [] resp.kind = "rpc_error" -> [raised |-> "KeyError", content |-> <<>>]
      [] OTHER                   -> [raised |-> "AttributeError", content |-> <<>>]

\* render_tool_result(mcp_resp.get("result", mcp_resp)) (lines 522-526): the
\* text of a result object or of a local error, the pretty-printed envelope when
\* it has no result; the acknowledgment's result is a string, which has no .get
RenderedContent(resp) ==
    CASE resp.kind = "local"     -> [raised |-> "", content |-> resp.text]
      [] resp.kind = "result"    -> [raised |-> "", content |-> <<"result text">>]
      [] resp.kind = "rpc_error" -> RenderedEnvelope
      [] OTHER                   -> [raised |-> "AttributeError", content |-> <<>>]

(***************************************************************************)
(* Inputs of the chat: what the model may request and the user may type    *)
(***************************************************************************)
PathReadme    == <<"a", ".", "m", "d">>
PathGitConfig == <<".", "g", "i", "t", "/", "c">>
PathPyc       == <<"b", "/", "x", ".", "p", "y", "c">>
PathDocs      == <<"d", "/", "n">>
PathDotSlashGit == <<".", "/", ".", "g", "i", "t", "/", "c">>
PathDot       == <<".">>

\* tc.function.arguments: a JSON text that decodes to an object, or does not
Json(obj)   == [valid |-> TRUE,  obj |-> obj]
InvalidJson == [valid |-> FALSE, obj |-> EmptyArgs]

\* json.loads(tc.function.arguments or "{}") inside try/except (lines 462-466)
Decode(arguments) == IF arguments.valid THEN arguments.obj ELSE EmptyArgs

ArgumentsFor(n) ==
    CASE n = "fs_write_text" ->
           { [relative_path |-> PathText("", FALSE, << <<"README.md">> >>),
              content |-> "text"],
             [relative_path |-> PathText("", FALSE, << <<"README.md">> >>)] }
      [] n \in {"fs_list", "fs_read_text"} ->
           { [relative_path |-> PathText("", FALSE, << <<"docs">> >>)] }
      [] n = "git_add_files" ->
           { [files |-> <<PathReadme>>], [files |-> <<PathGitConfig>>],
             [files |-> <<PathDocs, PathGitConfig, PathReadme, PathPyc>>],
             [files |-> <<PathDotSlashGit>>], [files |-> <<PathDot>>] }
      [] n = "git_commit_msg" -> { [message |-> "msg"] }
      [] n = "mcp_run" ->
           { [server |-> "FS", name |-> "read_text_file", arguments |-> [path |-> "x"]],
             [server |-> "Elsewhere", name |-> "t", arguments |-> [path |-> "x"]],
             [server |-> "Git", name |-> "git_status"] }
      [] n = "sql_load" -> { [schema |-> "create table t(a)"] }
      [] n = "sql_apply" -> { [ddl |-> "create index i on t(a)"] }
      [] n = "sql_optimize_apply" ->
           { [query |-> "select 1", ddl |-> "create index i on t(a)"] }
      [] n \in DOMAIN OPENAI_TO_MCP -> { [query |-> "select 1"] }
      [] n = "supabase_create_user" ->
           { [email |-> "a@b.c", password |-> "pw"], [email |-> "a@b.c"] }
      [] OTHER -> { [email |-> "a@b.c"] }

\* names the model may put in a tool call: the catalog, an imported remote
\* name, the undeclared git_add_all and a name nobody knows
RequestedNames ==
    {StaticTools[i] : i \in 1..Len(StaticTools)}
      \cup {"create_user", "git_add_all", "unknown_tool"}

RequestedCalls ==
    UNION { {[name |-> n, arguments |-> a] :
               a \in {Json(o) : o \in ArgumentsFor(n)} \cup {Json(EmptyArgs), InvalidJson}}
            : n \in RequestedNames }

\* the tools lists a remote tools/list may hold
\* t.get("name") of a descriptor that has no name
None == "None"

\* the names of the descriptors a remote tools/list may hold
RemoteToolLists ==
    { <<>>, <<"create_user", "list_users">>, <<"mcp_run", "fs_list">>,
      <<"create_user", None>> }

\* the import as a bug would have it: the catalog is rebuilt from the remote
\* descriptors and the pass-through alone
ImportTools_rebuild(catalog, res, tools) ==
    IF res = "result"
      THEN [catalog |-> tools \o <<"mcp_run">>,
            names |-> {tools[i] : i \in 1..Len(tools)}, exc |-> ""]
      ELSE [catalog |-> catalog, names |-> {}, exc |-> ""]

\* the import of the remote descriptors (lines 301-310), given what list_tools
\* gave: every descriptor is appended, then the name set is assigned, then
\* sorted() of the names is echoed, which fails on a set that mixes None and
\* strings; whatever raises is caught after the statements before it took effect
ImportTools(catalog, res, tools) ==
    LET names == {tools[i] : i \in 1..Len(tools)} IN
    CASE res = "raise"     -> [catalog |-> catalog, names |-> {}, exc |-> "RuntimeError"]
      [] res = "ack"       -> [catalog |-> catalog, names |-> {}, exc |-> "AttributeError"]
      [] res = "rpc_error" -> [catalog |-> catalog, names |-> {}, exc |-> ""]
      [] OTHER ->
           [catalog |-> catalog \o tools, names |-> names,
            exc |-> IF None \in names /\ Cardinality(names) > 1 THEN "TypeError" ELSE ""]

(***************************************************************************)
(* Spec: chat() of host.py                                                 *)
(***************************************************************************)
Crashed(exc, at) ==
    /\ pc' = "crashed"
    /\ crash' = [exc |-> exc, at |-> at]

\* _openai_client(), Memory(), JSONLLogger() (lines 284-286)
Start ==
    /\ pc = "start"
    /\ \E api_key \in BOOLEAN :
         IF api_key THEN pc' = "connect" /\ crash' = crash
                    ELSE Crashed("RuntimeError", "_openai_client")
    /\ UNCHANGED <<idx, clients, closed, ctor, REMOTE_SUPABASE_TOOL_NAMES,
                   OPENAI_TOOLS, memory, echo, tool_calls, tool_results_msgs, last>>
    /\ UNCHANGED <<sessVars, renderVars, pathVars, serverVars, messages, completions>>

\* one iteration of `for name in SERVERS` (lines 291-296)
Connect ==
    /\ pc = "connect"
    /\ \E e \in ConstructionEnvs :
         LET name == SERVERS[idx]
             c    == MCPClient(e.match, e.senv, e.henv, 0)
         IN
         /\ clients' = IF c.ok THEN clients \cup {name} ELSE clients
         /\ ctor' = [name |-> name, ok |-> c.ok, failedAt |-> c.failedAt,
                     spawned |-> c.ch.spawned,
                     exc |-> IF c.ok THEN "" ELSE c.ret.err,
                     sent |-> Len(c.wire), alive |-> c.ch.alive, env |-> e]
         /\ echo' = IF c.ok THEN echo ELSE <<"servidor no disponible", name>>
    /\ idx' = idx + 1
    /\ pc' = IF idx = Len(SERVERS) THEN "import" ELSE "connect"
    /\ UNCHANGED <<closed, REMOTE_SUPABASE_TOOL_NAMES, OPENAI_TOOLS, memory,
                   tool_calls, tool_results_msgs, last, crash>>
    /\ UNCHANGED <<sessVars, renderVars, pathVars, serverVars, messages, completions>>

\* import of the Supabase tools into the catalog (lines 298-310)
ImportRemoteTools ==
    /\ pc = "import"
    /\ IF "Supabase" \in clients
         THEN \E res \in CallResults, tools \in RemoteToolLists :
                LET m == ImportTools(OPENAI_TOOLS, res, tools) IN
                /\ res # "result" => tools = <<>>
                /\ OPENAI_TOOLS' = m.catalog
                /\ REMOTE_SUPABASE_TOOL_NAMES' = m.names
                /\ echo' = IF m.exc = ""
                             THEN <<"Tools de Supabase anadidas">>
                             ELSE <<"No se pudieron cargar las tools de Supabase">>
         ELSE UNCHANGED <<OPENAI_TOOLS, REMOTE_SUPABASE_TOOL_NAMES, echo>>
    /\ ctor' = NoCtor
    /\ pc' = "greet"
    /\ UNCHANGED <<idx, clients, closed, memory, tool_calls, tool_results_msgs,
                   last, crash>>
    /\ UNCHANGED <<sessVars, renderVars, pathVars, serverVars, messages, completions>>

\* the system prompt and the greeting (lines 313-335)
Greet ==
    /\ pc = "greet"
    /\ memory' = add(memory, "system")
    /\ echo' = <<"Chat iniciado">>
    /\ pc' = "prompt"
    /\ UNCHANGED <<idx, clients, closed, ctor, REMOTE_SUPABASE_TOOL_NAMES,
                   OPENAI_TOOLS, tool_calls, tool_results_msgs, last, crash>>
    /\ UNCHANGED <<sessVars, renderVars, pathVars, serverVars, messages, completions>>

\* ":quit": leave the loop and close every session (lines 341-342, 549-552)
Quit ==
    /\ pc = "prompt"
    /\ closed' = clients
    /\ echo' = <<"Chat finalizado.">>
    /\ pc' = "done"
    /\ UNCHANGED <<idx, clients, ctor, REMOTE_SUPABASE_TOOL_NAMES, OPENAI_TOOLS,
                   memory, tool_calls, tool_results_msgs, last, crash>>
    /\ UNCHANGED <<sessVars, renderVars, pathVars, serverVars, messages, completions>>

\* typer.prompt("you") (line 338) raises Abort when the user presses Ctrl-C or
\* the input stream ends
Interrupt ==
    /\ pc = "prompt"
    /\ Crashed("Abort", "prompt")
    /\ UNCHANGED <<idx, clients, closed, ctor, REMOTE_SUPABASE_TOOL_NAMES,
                   OPENAI_TOOLS, memory, echo, tool_calls, tool_results_msgs, last>>
    /\ UNCHANGED <<sessVars, renderVars, pathVars, serverVars, messages, completions>>

\* what stays as it is while a shortcut command runs
ShortcutFrame ==
    /\ UNCHANGED <<idx, clients, closed, ctor, REMOTE_SUPABASE_TOOL_NAMES,
                   OPENAI_TOOLS, memory, tool_calls, tool_results_msgs, last>>
    /\ UNCHANGED <<sessVars, renderVars, pathVars, serverVars, messages, completions>>

\* ":call <SERVER> <TOOL> <JSON>" (lines 345-371)
CmdCall ==
    /\ pc = "prompt"
    /\ \E parse \in {"usage", "error", "ok"},
          server_name \in ServerNames \cup {"Elsewhere"},
          res \in CallResults :
         LET r == RenderedContent([kind |-> res, isError |-> FALSE, text |-> <<>>]) IN
         echo' = CASE parse = "usage" -> <<"Uso: :call <SERVER> <TOOL> <JSON-ARGS>">>
                   [] parse = "error" -> <<"Error parseando comando :call">>
                   [] server_name \notin clients ->
                        <<"Servidor no esta configurado", server_name>>
                   [] res = "raise" \/ r.raised # "" ->
                        <<"Error llamando", server_name>>
                   [] OTHER -> r.content
    /\ UNCHANGED <<pc, crash>>
    /\ ShortcutFrame

\* ":tools [target]" (lines 393-401)
CmdTools ==
    /\ pc = "prompt"
    /\ \E target \in ServerNames \cup {"Elsewhere"}, raises \in BOOLEAN :
         IF target \notin clients
           THEN /\ echo' = <<"Servidor no esta configurado", target>>
                /\ UNCHANGED <<pc, crash>>
           ELSE IF raises
             THEN /\ Crashed("RuntimeError", ":tools")
                  /\ echo' = <<"you">>
             ELSE /\ echo' = <<"envelope as JSON">>
                  /\ UNCHANGED <<pc, crash>>
    /\ ShortcutFrame

\* ":load", ":explain", ":diagnose", ":optimize", ":apply" and the natural
\* language route to sql_load (lines 374-390, 403-441)
Shortcuts ==
    [nl_load |-> "sql_load", load |-> "sql_load", explain |-> "sql_explain",
     diagnose |-> "sql_diagnose", optimize |-> "sql_optimize", apply |-> "sql_apply"]

CmdSql ==
    /\ pc = "prompt"
    /\ \E cmd \in DOMAIN Shortcuts, readable \in BOOLEAN, res \in CallResults :
         LET d == _exec_mcp_sql(clients, Shortcuts[cmd], [text |-> "typed"], res)
             r == RenderedContent(d.resp)
         IN
         IF cmd \in {"nl_load", "load"} /\ ~readable
           THEN /\ echo' = <<"Error leyendo">>
                /\ UNCHANGED <<pc, crash>>
           ELSE IF d.raised # ""
             THEN Crashed(d.raised, cmd) /\ echo' = <<"you">>
           ELSE IF r.raised # ""
             THEN Crashed(r.raised, cmd) /\ echo' = <<"you">>
           ELSE /\ echo' = r.content
                /\ UNCHANGED <<pc, crash>>
    /\ ShortcutFrame

\* one client.chat.completions.create call: whether tools= was passed, whether
\* it returned, how many tool calls its reply asked for, and how many tool
\* results had been collected when it was made (lines 446-453, 529-536)
Completion(tools, returned, requested, results) ==
    [tools |-> tools, returned |-> returned, requested |-> requested,
     results |-> results]

\* memory.dump(): one message per remembered entry, with its role
Dump(mem) == [i \in 1..Len(mem) |-> [role |-> mem[i]]]

\* memory.dump() + [{"role": "user", "content": user}] (line 445)
FirstMessages(mem) == Dump(mem) \o <<[role |-> "user"]>>

\* the follow-up list with the tool results ahead of the assistant message
FollowMessages_results_first(mem, calls, results) ==
    FirstMessages(mem) \o results \o <<[role |-> "assistant", tool_calls |-> calls]>>

\* messages + [{"role": "assistant", ..., "tool_calls": [...]}] + tool_results_msgs
\* (lines 531-533)
FollowMessages(mem, calls, results) ==
    FirstMessages(mem) \o <<[role |-> "assistant", tool_calls |-> calls]>> \o results

\* a natural-language turn up to the first completion (lines 445-456, 542-547)
TurnStart ==
    /\ pc = "prompt"
    /\ Len(memory) < 1 + 2 * MaxTurns
    /\ messages' = FirstMessages(memory)
    /\ \E raises \in BOOLEAN, n \in 0..MaxToolCalls :
         /\ completions' = <<Completion(TRUE, ~raises, IF raises THEN 0 ELSE n, 0)>>
         /\ IF raises
              THEN /\ Crashed("APIError", "completion")
                   /\ UNCHANGED <<memory, tool_calls>>
              ELSE IF n = 0
                THEN /\ memory' = RememberTurn(memory)
                     /\ UNCHANGED <<pc, crash, tool_calls>>
                ELSE /\ tool_calls' = [i \in 1..n |-> i]
                     /\ pc' = "tools"
                     /\ UNCHANGED <<memory, crash>>
    /\ echo' = IF pc' = "prompt" THEN <<"assistant">> ELSE <<"you">>
    /\ tool_results_msgs' = <<>>
    /\ UNCHANGED <<idx, clients, closed, ctor, REMOTE_SUPABASE_TOOL_NAMES,
                   OPENAI_TOOLS, last>>
    /\ UNCHANGED <<sessVars, renderVars, pathVars, serverVars>>

\* one iteration of `for tc in tool_calls` (lines 460-526)
ToolStep ==
    /\ pc = "tools"
    /\ \E tc \in RequestedCalls, res \in CallResults :
         LET k    == Len(tool_results_msgs) + 1
             args == Decode(tc.arguments)
             d    == Dispatch(clients, REMOTE_SUPABASE_TOOL_NAMES, tc.name, args, res)
             r    == RenderedContent(d.resp)
             exc  == IF d.raised # "" THEN d.raised ELSE r.raised
         IN
         /\ last' = [name |-> tc.name, args |-> args, sent |-> d.sent,
                     raised |-> exc, content |-> r.content,
                     isError |-> d.resp.isError, kind |-> d.resp.kind]
         /\ IF exc # ""
              THEN /\ Crashed(exc, "tools")
                   /\ UNCHANGED tool_results_msgs
              ELSE /\ tool_results_msgs' =
                        Append(tool_results_msgs,
                               [role |-> "tool", tool_call_id |-> tool_calls[k],
                                content |-> r.content])
                   /\ pc' = IF k = Len(tool_calls) THEN "follow" ELSE "tools"
                   /\ UNCHANGED crash
    /\ UNCHANGED <<idx, clients, closed, ctor, REMOTE_SUPABASE_TOOL_NAMES,
                   OPENAI_TOOLS, memory, echo, tool_calls>>
    /\ UNCHANGED <<sessVars, renderVars, pathVars, serverVars, messages, completions>>

\* the second completion and the end of the turn (lines 529-541)
TurnFollow ==
    /\ pc = "follow"
    /\ messages' = FollowMessages(memory, tool_calls, tool_results_msgs)
    /\ \E raises \in BOOLEAN :
         /\ completions' =
              Append(completions, Completion(FALSE, ~raises, 0, Len(tool_results_msgs)))
         /\ IF raises
              THEN /\ Crashed("APIError", "follow")
                   /\ UNCHANGED <<memory, echo, tool_calls, tool_results_msgs, last>>
              ELSE /\ memory' = RememberTurn(memory)
                   /\ echo' = <<"assistant">>
                   /\ tool_calls' = <<>>
                   /\ tool_results_msgs' = <<>>
                   /\ last' = NoCall
                   /\ pc' = "prompt"
                   /\ UNCHANGED crash
    /\ UNCHANGED <<idx, clients, closed, ctor, REMOTE_SUPABASE_TOOL_NAMES,
                   OPENAI_TOOLS>>
    /\ UNCHANGED <<sessVars, renderVars, pathVars, serverVars>>

Init == SessionInit

Next ==
    \/ Start
    \/ Connect
    \/ ImportRemoteTools
    \/ Greet
    \/ Quit
    \/ Interrupt
    \/ CmdCall
    \/ CmdTools
    \/ CmdSql
    \/ TurnStart
    \/ ToolStep
    \/ TurnFollow

Spec == Init /\ [][Next]_vars

(***************************************************************************)
(* RenderSpec: one tool result, rendered for the terminal (the shortcut     *)
(* commands, e.g. line 411) and for the tool-role message (line 525)        *)
(***************************************************************************)
RecordAB(x, y) == Dict(<<"a", "b">>, <<x, y>>)
\* values of structuredContent.result
Payloads ==
    { List(<<RecordAB(Num(1), Num(2)), RecordAB(Num(3), Num(4))>>),
      List(<<RecordAB(Str(<<"x", "|", "y">>), Num(2))>>),
      List(<<RecordAB(Num(1), Num(2)), Dict(<<"a">>, <<Num(3)>>)>>),
      List(<<Dict(<<"a">>, <<Num(1)>>), Num(5)>>),
      Dict(<<"k">>, <<Num(1)>>),
      List(<<>>),
      List(<<Num(1), Num(2)>>) }

TextPart(chars) == Dict(<<"type", "text">>, <<Str(<<"text">>), Str(chars)>>)
ImagePart == Dict(<<"type", "data">>, <<Str(<<"image">>), Str(<<"base64">>)>>)

\* values of structuredContent and of content; Null stands for an absent key
StructuredContents ==
    {Null, EmptyDict, Dict(<<"rows">>, <<List(<<Num(1)>>)>>)}
      \cup {Dict(<<"result">>, <<d>>) : d \in Payloads}
Contents ==
    { Null, List(<<>>), List(<<TextPart(<<"t1">>), TextPart(<<"t2">>)>>),
      List(<<ImagePart, TextPart(<<"t1">>)>>) }

MakeResult(sc, c) ==
    Dict((IF sc = Null THEN <<>> ELSE <<"structuredContent">>)
           \o (IF c = Null THEN <<>> ELSE <<"content">>),
         (IF sc = Null THEN <<>> ELSE <<sc>>) \o (IF c = Null THEN <<>> ELSE <<c>>))

\* what mcp_resp.get("result", mcp_resp) may be: an object, or the string of
\* the 204 acknowledgment
ToolResults ==
    {MakeResult(sc, c) : sc \in StructuredContents, c \in Contents}
      \cup {Str(<<"notification sent">>)}

\* the message content as a bug would have it: a text of its own for the
\* model, numbered by the renderings made so far
ToolMessageContent_numbered(res) ==
    [render_tool_result(res) EXCEPT !.out = Append(@, ToString(nrender))]

\* "content": render_tool_result(...) of the tool-role message (line 525)
ToolMessageContent(res) == render_tool_result(res)
\* typer.echo(render_tool_result(...)) (line 411)
Displayed(res) == render_tool_result(res)

RenderInit ==
    /\ SessionIdle /\ HostInit /\ PathIdle /\ ServerIdle
    /\ result \in ToolResults
    /\ shown = NotRendered
    /\ tool_message = NotRendered
    /\ nrender = 0

Display ==
    /\ nrender < MaxRenders
    /\ shown' = Displayed(result)
    /\ nrender' = nrender + 1
    /\ UNCHANGED <<result, tool_message, sessVars, hostVars, pathVars, serverVars>>

Inject ==
    /\ nrender < MaxRenders
    /\ tool_message' = ToolMessageContent(result)
    /\ nrender' = nrender + 1
    /\ UNCHANGED <<result, shown, sessVars, hostVars, pathVars, serverVars>>

RenderNext == Display \/ Inject

RenderSpec == RenderInit /\ [][RenderNext]_vars

(***************************************************************************)
(* PathSpec: one call of a file or repository wrapper, routed with every    *)
(* server connected, under posixpath and under ntpath                       *)
(***************************************************************************)
\* relative_path as the model may give it: "README.md", "docs/n", "./a",
\* "a//b", "", "a/../b", "../x", "a/../../x", "/etc", "D:evil", "D:/evil", "C:x"
RelativePaths ==
    { PathText("", FALSE, << <<"README.md">> >>),
      PathText("", FALSE, << <<"docs">>, <<"n">> >>),
      PathText("", FALSE, << <<".">>, <<"a">> >>),
      PathText("", FALSE, << <<"a">>, <<>>, <<"b">> >>),
      PathText("", FALSE, <<>>),
      PathText("", FALSE, << <<"a">>, <<"..">>, <<"b">> >>),
      PathText("", FALSE, << <<"..">>, <<"x">> >>),
      PathText("", FALSE, << <<"a">>, <<"..">>, <<"..">>, <<"x">> >>),
      PathText("", TRUE,  << <<"etc">> >>),
      PathText("D:", FALSE, << <<"evil">> >>),
      PathText("D:", TRUE,  << <<"evil">> >>),
      PathText("C:", FALSE, << <<"x">> >>) }

FileWrappers == {"fs_write_text", "fs_list", "fs_read_text"}
RepoWrappers == {"git_init_here", "git_add_files", "git_commit_msg",
                 "git_status_here", "git_log_here"}

\* the arguments of a wrapper call; for the repository wrappers also with a
\* repo_path of the model's own
WrapperCalls ==
    {[name |-> n, args |-> [relative_path |-> rp, content |-> "text"]] :
        n \in FileWrappers, rp \in RelativePaths}
    \cup {[name |-> n, args |-> a] :
            n \in RepoWrappers,
            a \in { [message |-> "msg", files |-> <<PathReadme>>],
                    [message |-> "msg", files |-> <<PathReadme>>,
                     repo_path |-> "/elsewhere"],
                    [message |-> "msg", files |-> <<PathReadme>>,
                     repo_path |-> "/elsewhere", max_count |-> 3] }}

PathInit ==
    /\ SessionIdle /\ HostInit /\ RenderIdle /\ ServerIdle
    /\ os_name \in {"posix", "nt"}
    /\ issued \in WrapperCalls
    /\ routed = NotRouted

\* the loop body's router on the issued call (lines 470-487), every server
\* having a session
Route ==
    /\ ~routed.ran
    /\ \E res \in CallResults :
         LET d == Dispatch(ServerNames, {}, issued.name, issued.args, res) IN
         routed' = [ran |-> TRUE, raised |-> d.raised, sent |-> d.sent]
    /\ UNCHANGED <<os_name, issued, sessVars, hostVars, renderVars, serverVars>>

PathNext == Route

PathSpec == PathInit /\ [][PathNext]_vars

(***************************************************************************)
(* remoteMCP/supabaseAdminHelper.py: the bundled HTTP server                *)
(***************************************************************************)
\* the names get_tools() advertises (lines 59-234), in order
get_tools ==
    <<"create_user", "send_magic_link", "list_users", "get_user_by_id",
      "update_user_metadata", "delete_user", "get_user_stats", "bulk_invite_users",
      "reset_user_password">>

\* the names call_tool has a branch for (lines 239-256)
Dispatched ==
    {"create_user", "send_magic_link", "list_users", "get_user_by_id",
     "update_user_metadata", "delete_user", "get_user_stats", "bulk_invite_users",
     "reset_user_password"}

\* how the Supabase API answers one request of a handler: 200, another status
\* with a JSON object, with a JSON value that is no object, with a body that
\* is no JSON, or no answer at all
Outcomes == {"200", "non200_object", "non200_array", "non200_not_json",
             "connection_error"}

\* {"content": [{"type": "text", "text": ...}], "isError": ...}
ToolResult(isError, text) == [isError |-> isError, text |-> text]
\* what a handler gives call_tool: a result, or an exception
Handled(res) == [raised |-> "", result |-> res]
HandlerRaised(exc) == [raised |-> exc, result |-> ToolResult(TRUE, <<>>)]

\* re.match(r'^[^@]+@[^@]+\.[^@]+$', email) on the characters of email
ValidEmail(email) ==
    \E p \in 1..Len(email), q \in 1..Len(email) :
      /\ email[p] = "@" /\ \A i \in 1..Len(email) : email[i] = "@" => i = p
      /\ p > 1 /\ q > p + 1 /\ q < Len(email) /\ email[q] = "."

\* the loop of _bulk_invite_users (lines 665-693): response.json().get on a
\* body that is no object raises AttributeError, which the loop does not
\* catch; a body that is no JSON raises requests' JSONDecodeError, which is a
\* RequestException
RECURSIVE InviteEach(_, _, _, _)
InviteEach(emails, ups, successful, failed) ==
    IF emails = <<>>
      THEN [raised |-> "", successful |-> successful, failed |-> failed]
    ELSE LET email == Head(emails) IN
         IF ~ValidEmail(email)
           THEN InviteEach(Tail(emails), ups, successful,
                           Append(failed, [email |-> email, reason |-> "Email invalido"]))
         ELSE IF Head(ups) = "200"
           THEN InviteEach(Tail(emails), Tail(ups),
                           Append(successful, [email |-> email, status |-> "sent"]),
                           failed)
         ELSE IF Head(ups) = "non200_array"
           THEN [raised |-> "AttributeError", successful |-> successful,
                 failed |-> failed]
         ELSE InviteEach(Tail(emails), Tail(ups), successful,
                         Append(failed, [email |-> email, reason |-> Head(ups)]))

\* _bulk_invite_users (lines 651-726)
_bulk_invite_users(args, ups) ==
    LET emails == Get(args, "emails", <<>>) IN
    IF emails = <<>>
      THEN Handled(ToolResult(TRUE, <<"Se requiere una lista de emails">>))
    ELSE LET r == InviteEach(emails, ups, <<>>, <<>>) IN
         IF r.raised # "" THEN HandlerRaised(r.raised)
         ELSE Handled([isError |-> FALSE,
                       text |-> <<"Invitaciones masivas completadas">>,
                       structuredContent |->
                         [successful |-> r.successful, failed |-> r.failed,
                          total_sent |-> Len(r.successful),
                          total_failed |-> Len(r.failed)]])

\* the other handlers (lines 268-649, 728-773): one request to the API
Handler(name, args, ups) ==
    CASE Head(ups) = "200" -> Handled(ToolResult(FALSE, <<"ok", name>>))
      [] Head(ups) = "non200_array" -> HandlerRaised("AttributeError")
      [] Head(ups) = "connection_error" \/ Head(ups) = "non200_not_json" ->
           Handled(ToolResult(TRUE, <<"Error de conexion">>))
      [] OTHER -> Handled(ToolResult(TRUE, <<"Error", name>>))

\* call_tool without its try/except: an exception of a handler leaves it
call_tool_uncaught(name, arguments, ups) ==
    IF name \notin Dispatched
      THEN Handled(ToolResult(TRUE, <<"Tool no encontrada", name>>))
    ELSE IF name = "bulk_invite_users" THEN _bulk_invite_users(arguments, ups)
    ELSE Handler(name, arguments, ups)

\* call_tool (lines 236-266)
call_tool(name, arguments, ups) ==
    IF name \notin Dispatched
      THEN Handled(ToolResult(TRUE, <<"Tool no encontrada", name>>))
    ELSE LET h == IF name = "bulk_invite_users"
                    THEN _bulk_invite_users(arguments, ups)
                    ELSE Handler(name, arguments, ups)
         IN IF h.raised # ""
              THEN Handled(ToolResult(TRUE, <<"Error ejecutando", name>>))
              ELSE h

\* jsonify(...) with its status
Response(status, body) == [status |-> status, body |-> body]
JsonRpcError(id, code) == [jsonrpc |-> "2.0", id |-> id, error |-> [code |-> code]]

\* handle_mcp (lines 778-821)
handle_mcp(data, ups) ==
    IF data.jsonrpc # "2.0" THEN Response(400, [error |-> "Invalid JSON-RPC version"])
    ELSE LET req_id == IF "id" \in DOMAIN data THEN data.id ELSE None IN
      CASE data.method = "initialize" ->
             Response(200, [jsonrpc |-> "2.0", id |-> req_id,
                            result |-> [protocolVersion |-> "2024-11-05"]])
        [] data.method = "tools/list" ->
             Response(200, [jsonrpc |-> "2.0", id |-> req_id,
                            result |-> [tools |-> get_tools]])
        [] data.method = "tools/call" ->
             LET res == call_tool(data.params.name, data.params.arguments, ups) IN
             IF res.raised # ""
               THEN Response(500, JsonRpcError(req_id, -32603))
               ELSE Response(200, [jsonrpc |-> "2.0", id |-> req_id,
                                   result |-> res.result])
        [] data.method = "notifications/initialized" -> Response(204, [jsonrpc |-> ""])
        [] OTHER -> Response(400, JsonRpcError(req_id, -32601))

(***************************************************************************)
(* ServerSpec: one POST to /mcp of the bundled server                       *)
(***************************************************************************)
MaxEmails == 3

EmailA   == <<"a", "@", "b", ".", "c">>
EmailD   == <<"d", "@", "e", ".", "f">>
EmailBad == <<"n", "o">>

\* the non-empty lists of at most MaxEmails emails
EmailLists ==
    UNION { [1..n -> {EmailA, EmailD, EmailBad}] : n \in 1..MaxEmails }

\* the tool names a tools/call may carry: the advertised ones, the ones the
\* host forwards the static supabase_* descriptors to, and an unknown one
PostedNames ==
    {get_tools[i] : i \in 1..Len(get_tools)}
      \cup {SupabaseForward[n] : n \in DOMAIN SupabaseForward}
      \cup {"unknown_tool"}

PostedArguments(name) ==
    IF name = "bulk_invite_users"
      THEN {[emails |-> l] : l \in EmailLists} \cup {EmptyArgs}
      ELSE {EmptyArgs, [email |-> "a@b.c"]}

Posts ==
    {InitializeRequest(_id(1)), ListRequest(_id(1)), InitializedNotification,
     [jsonrpc |-> "2.0", id |-> _id(1), method |-> "resources/list", params |-> {}]}
      \cup UNION { {CallRequest(_id(k), name, a) : a \in PostedArguments(name), k \in 1..2}
                   : name \in PostedNames }

\* one answer of the API per request a handler makes; a request that is not a
\* bulk invitation makes at most one
IsBulk(data) == data.method = "tools/call" /\ data.params.name = "bulk_invite_users"

ServerInit ==
    /\ SessionIdle /\ HostInit /\ RenderIdle /\ PathIdle
    /\ posted \in Posts
    /\ upstream \in [1..MaxEmails -> Outcomes]
    /\ ~IsBulk(posted) => \A i \in 2..MaxEmails : upstream[i] = "200"
    /\ answer = NoAnswer

\* the server answers the POST
Handle ==
    /\ answer = NoAnswer
    /\ answer' = handle_mcp(posted, upstream)
    /\ UNCHANGED <<posted, upstream, sessVars, hostVars, renderVars, pathVars>>

ServerNext == Handle

ServerSpec == ServerInit /\ [][ServerNext]_vars

(***************************************************************************)
(* Claims about one session (checked under SessionSpec)                    *)
(***************************************************************************)
IsSend(e, method) == e.op = "send" /\ e.msg.method = method
IsToolRequest(e)  == e.op = "send" /\ e.msg.method \in {"tools/list", "tools/call"}
SendsOf(method)   == {i \in 1..Len(wire) : IsSend(wire[i], method)}
ToolRequests      == {i \in 1..Len(wire) : IsToolRequest(wire[i])}

\* C4: a constructed session has sent one initialize request, taken one
\* response to it and then sent one initialized notification, in this order and
\* as the first messages of its channel; nothing that follows the notification
\* can make the construction fail (no reply to it is awaited: on stdio nothing
\* is read after it), and every tools/list or tools/call request comes after
\* the whole sequence.
C4_HandshakeOrder ==
    /\ Cardinality(SendsOf("initialize")) <= 1
    /\ Cardinality(SendsOf("notifications/initialized")) <= 1
    /\ session.state = "ready" =>
         /\ Len(wire) >= 3
         /\ IsSend(wire[1], "initialize")
         /\ wire[2].op \in {"read", "http"}
         /\ IsSend(wire[3], "notifications/initialized")
         /\ "id" \notin DOMAIN wire[3].msg
         /\ session.transport = "stdio" /\ Len(wire) >= 4 => wire[4].op = "send"
    /\ session.state = "failed" => SendsOf("notifications/initialized") = {}
    /\ \A i \in ToolRequests :
         /\ session.state = "ready"
         /\ \E j \in SendsOf("notifications/initialized") : j < i

\* C4 witness: a tools/call request was answered on a session that shook hands
C4_Witness ==
    /\ session.state = "ready" /\ session.transport = "stdio"
    /\ ret.op = "call" /\ ret.kind = "envelope"
    /\ Cardinality(ToolRequests) >= 2

\* requests written minus lines read, over the first n events of the channel
Outstanding(n) ==
    Cardinality({i \in 1..n : wire[i].op = "send" /\ IsRequest(wire[i].msg)})
      - Cardinality({i \in 1..n : wire[i].op = "read"})

\* C6: on a stdio channel a message is written only when no request is
\* outstanding, each written request is followed by one read before the next
\* write, and so at most one request is ever outstanding.
C6_OneOutstanding ==
    child.spawned =>
      /\ \A n \in 0..Len(wire) : Outstanding(n) \in {0, 1}
      /\ \A i \in 1..Len(wire) : wire[i].op = "send" => Outstanding(i - 1) = 0
      /\ \A i \in 1..Len(wire) :
           wire[i].op = "send" /\ IsRequest(wire[i].msg) =>
             i < Len(wire) /\ wire[i + 1].op = "read"

\* C6 witness: a request was written after an earlier invocation failed to read
C6_Witness ==
    /\ child.spawned /\ session.state = "ready"
    /\ Cardinality(ToolRequests) >= 2
    /\ \E i \in 4..Len(wire) : wire[i].op = "read" /\ wire[i].line = GarbageLine

\* C7: an envelope returned by list_tools/call on stdio answers the request
\* that this invocation sent
C7_Pairing ==
    (session.transport = "stdio" /\ ret.op \in {"list", "call"} /\ ret.kind = "envelope")
      => ret.env.id = ret.reqId

\* C8: every request carries jsonrpc "2.0" and an id no earlier message had,
\* and the notification carries no id
C8_FreshIds ==
    \A i \in 1..Len(wire) :
      wire[i].op = "send" =>
        /\ wire[i].msg.jsonrpc = "2.0"
        /\ IF IsRequest(wire[i].msg)
             THEN /\ "id" \in DOMAIN wire[i].msg
                  /\ \A j \in 1..(i - 1) :
                       (wire[j].op = "send" /\ "id" \in DOMAIN wire[j].msg)
                         => wire[j].msg.id # wire[i].msg.id
             ELSE "id" \notin DOMAIN wire[i].msg

\* C8 witness: initialize, the notification and two tool requests were sent
C8_Witness ==
    /\ SendsOf("initialize") # {} /\ SendsOf("notifications/initialized") # {}
    /\ SendsOf("tools/list") # {} /\ SendsOf("tools/call") # {}

\* this step read the end of the child's output stream
EmptyReadStep ==
    /\ Len(wire') > Len(wire)
    /\ Last(wire') = [op |-> "read", line |-> EOF]

\* C9: an empty read fails the invocation with an error that carries what the
\* child had written to stderr and the client had not read yet; no envelope is
\* returned
C9_EmptyRead ==
    [][EmptyReadStep =>
         /\ ret'.kind = "raise"
         /\ ret'.env = NoEnvelope
         /\ ret'.stderr = SubSeq(child'.errlog, child.errpos + 1, Len(child'.errlog))]_vars

\* C9 witness: a call ended in an empty read and its error carries stderr text
C9_Witness ==
    /\ wire # <<>> /\ Last(wire) = [op |-> "read", line |-> EOF]
    /\ ret.op = "call" /\ ret.kind = "raise"
    /\ ret.stderr = <<"warning", "traceback">>

\* this step is a list_tools/call on the http transport
HttpInvokeStep == ninv' = ninv + 1 /\ session.transport = "http"

\* C10: a failed POST fails that invocation and leaves the session as it was;
\* an invocation whose POST gets a JSON body returns it, whatever failed before
C10_HttpCallOnly ==
    [][HttpInvokeStep =>
         /\ session' = session
         /\ Last(wire').outcome \in HttpFailures => ret'.kind = "raise"
         /\ Last(wire').outcome = "json" =>
              ret'.kind = "envelope" /\ ret'.env.id = ret'.reqId]_vars

\* C10 witness: an http call returned an envelope after an earlier call failed
C10_Witness ==
    /\ session.transport = "http" /\ ret.op = "call" /\ ret.kind = "envelope"
    /\ Last(wire).outcome = "json"
    /\ \E i \in 5..(Len(wire) - 2) :
         wire[i].op = "http" /\ wire[i].outcome \in HttpFailures

\* this step is a close() call
CloseStep == nclose' = nclose + 1

\* C12: close() never raises and leaves the session object and its channel's
\* messages alone, however often it is called and whether or not the child is
\* still running; on stdio the first close of a running child asks it to
\* terminate, and a close after the first, or of a child that is gone, changes
\* nothing
C12_CloseIdempotent ==
    [][CloseStep =>
         /\ ret'.op = "close" /\ ret'.kind = "none"
         /\ session' = session /\ wire' = wire
         /\ (session.transport = "stdio" /\ child.alive) =>
               (child'.sigterm /\ ~child'.alive)
         /\ (nclose >= 1 \/ ~child.alive) => child' = child]_vars

\* C12 witness: a stdio session whose child was asked to terminate by the first
\* close has been closed again
C12_Witness ==
    /\ session.transport = "stdio" /\ ret.op = "close"
    /\ nclose = MaxCloses /\ child.sigterm /\ ~child.alive

\* the POSTs of the initialized notification that were answered with 204
NotificationAcks ==
    {i \in 2..Len(wire) :
       /\ IsSend(wire[i - 1], "notifications/initialized")
       /\ wire[i].op = "http" /\ wire[i].outcome = "204"}

\* C11: on http a 204 answer to the initialized notification is taken as an
\* acknowledgment: _send_http raises nothing and parses no body for it, and the
\* construction it belongs to completes
C11_NotificationAck ==
    \A i \in NotificationAcks :
      /\ wire[i].gave = "ack"
      /\ session.state = "ready" /\ session.transport = "http"

\* C11 witness: an http session was constructed whose initialize got a JSON
\* body and whose notification got 204
C11_Witness ==
    /\ ret.op = "init" /\ ret.kind = "envelope" /\ session.state = "ready"
    /\ Len(wire) = 4 /\ wire[2].outcome = "json" /\ 4 \in NotificationAcks

(***************************************************************************)
(* Claims about chat() (checked under Spec)                                *)
(***************************************************************************)
\* C1: whatever name and arguments a tool call has, the loop body gets a
\* result for it and raises nothing
C1_RouterTotal == last.raised = "" /\ crash.at # "tools"

\* C2: once the tool loop of a turn is over there is one tool-result message
\* per requested call, in the order of the requests
C2_AllCallsAnswered ==
    (pc # "tools" /\ tool_calls # <<>>) =>
      /\ Len(tool_results_msgs) = Len(tool_calls)
      /\ \A i \in 1..Len(tool_calls) : tool_results_msgs[i].tool_call_id = tool_calls[i]

\* C3: an exception raised by a session during a tool invocation never leaves
\* chat(), whether the model or a shortcut command asked for the invocation
C3_TransportNonFatal ==
    ~(/\ pc = "crashed"
      /\ crash.exc = "RuntimeError"
      /\ crash.at \in {"tools", ":tools"} \cup DOMAIN Shortcuts)

\* the latest construction of the startup loop and what its channel did
CtorMatch == ctor.env.match
StdioAttempt ==
    /\ ctor.name # ""
    /\ CtorMatch.found /\ CtorMatch.command /\ TransportOf(CtorMatch) = "stdio"
    /\ ctor.env.senv.spawn # "fail"
HttpAttempt ==
    /\ ctor.name # ""
    /\ CtorMatch.found /\ CtorMatch.url # "" /\ TransportOf(CtorMatch) = "http"
\* the child is gone when initialize is written, when its response is read, or
\* when the notification is written
StdioHandshakeFault ==
    /\ StdioAttempt
    /\ \/ ctor.env.senv.spawn = "exits"
       \/ ctor.env.senv.onInit \in {"exit", "exit_silent", "reply_then_exit"}
HttpInitializeFault == HttpAttempt /\ ctor.env.henv.p1 \in HttpFailures
HttpInitializedFault ==
    /\ HttpAttempt
    /\ ctor.env.henv.p1 \notin HttpFailures
    /\ ctor.env.henv.p2 \in HttpFailures

\* the server got no session, the user was told, the loop went on
Unregistered ==
    /\ ~ctor.ok
    /\ ctor.name \notin clients
    /\ echo = <<"servidor no disponible", ctor.name>>
    /\ pc \in {"connect", "import"}
    /\ idx > 1 /\ SERVERS[idx - 1] = ctor.name

C13_AllClosedAtEnd == pc \in {"done", "crashed"} => closed = clients

\* the server each high-level wrapper is bound to
WrapperServer ==
    [fs_write_text |-> "FS", fs_list |-> "FS", fs_read_text |-> "FS",
     git_init_here |-> "Git", git_add_files |-> "Git", git_commit_msg |-> "Git",
     git_status_here |-> "Git", git_log_here |-> "Git"]

\* C14: the pass-through and the wrappers are resolved before the imported
\* remote descriptors: a request made for mcp_run goes to the server and tool
\* its arguments name, and a request made for a wrapper goes to the wrapper's
\* server, also when the remote server declares a tool of the same name
C14_ResolutionOrder ==
    (last.name # "" /\ last.sent # <<>>) =>
      /\ last.name = "mcp_run" =>
            /\ HasAll(last.args, {"server", "name"})
            /\ last.sent[1].server = last.args.server
            /\ last.sent[1].name = last.args.name
      /\ last.name \in DOMAIN WrapperServer =>
            last.sent[1].server = WrapperServer[last.name]

\* the names some branch of the router handles
RoutedNames ==
    DOMAIN WrapperServer \cup {"git_add_all", "mcp_run"} \cup DOMAIN SupabaseForward
      \cup DOMAIN OPENAI_TO_MCP \cup REMOTE_SUPABASE_TOOL_NAMES

\* C15: a tool call whose name no branch of the router handles gets an error
\* result that names the tool as not mapped, sends no request and raises
\* nothing, with or without a SQLScout session
C15_UnsupportedTool ==
    (last.name # "" /\ last.name \notin RoutedNames) =>
      /\ last.raised = ""
      /\ last.sent = <<>>
      /\ last.isError
      /\ last.content = <<"Tool no mapeada a MCP (SQLScout)", last.name>>
      /\ Last(tool_results_msgs).content = last.content

\* C15 witness: an unknown name was answered while SQLScout has a session
C15_Witness ==
    /\ last.name = "unknown_tool" /\ "SQLScout" \in clients
    /\ last.isError /\ tool_results_msgs # <<>> /\ pc = "follow"

\* the server a routed tool call is bound to
BoundServer(name, args) ==
    CASE name = "mcp_run" -> Get(args, "server", "")
      [] name \in DOMAIN WrapperServer -> WrapperServer[name]
      [] name = "git_add_all" -> "Git"
      [] name \in DOMAIN OPENAI_TO_MCP -> "SQLScout"
      [] OTHER -> "Supabase"

\* the latest tool call is bound to a server that has no session
UnconnectedCall ==
    /\ last.name \in RoutedNames
    /\ HasAll(last.args, Required(last.name))
    /\ last.name = "git_add_files" => SafeFiles(Get(last.args, "files", <<>>)) # <<>>
    /\ BoundServer(last.name, last.args) \notin clients

\* C16: a tool call bound to a server without a session gets an error result
\* that names the server, sends nothing and raises nothing, whatever the kind of
\* binding
C16_UnconnectedServer ==
    UnconnectedCall =>
      /\ last.raised = ""
      /\ last.sent = <<>>
      /\ last.isError
      /\ last.content = <<"Servidor no esta configurado", BoundServer(last.name, last.args)>>

\* C17: a tool call of the model makes one tools/call request on one session,
\* or makes none and gets a locally built error result; it never makes two
C17_OneRequestOrLocalError ==
    last.name # "" =>
      \/ Len(last.sent) = 1
      \/ last.sent = <<>> /\ last.raised = "" /\ last.isError

\* a path the filter is said to block: it begins with .git, _git or
\* __pycache__, or ends with .pyc, .pyo, .pyd or .log (or is empty)
SaidBlocked(path) ==
    \/ path = <<>>
    \/ StartsWith(path, <<".", "g", "i", "t">>)
    \/ StartsWith(path, <<"_", "g", "i", "t">>)
    \/ StartsWith(path, <<"_", "_", "p", "y", "c", "a", "c", "h", "e", "_", "_">>)
    \/ EndsWith(path, <<".", "p", "y", "c">>) \/ EndsWith(path, <<".", "p", "y", "o">>)
    \/ EndsWith(path, <<".", "p", "y", "d">>) \/ EndsWith(path, <<".", "l", "o", "g">>)
SaidSafe(path) == ~SaidBlocked(path)

HasComponent(path, dir) ==
    \E i \in 1..Len(path) :
      LET j == i + Len(dir) - 1 IN
      /\ j <= Len(path)
      /\ SubSeq(path, i, j) = dir
      /\ i = 1 \/ path[i - 1] = "/"
      /\ j = Len(path) \/ path[j + 1] = "/"

\* C19: no path forwarded by git_add_files lies inside a .git, _git or
\* __pycache__ directory, however the path is spelled
C19_NoInternalPath ==
    (last.name = "git_add_files" /\ last.sent # <<>>) =>
      \A k \in 1..Len(last.sent[1].arguments.files) :
        \A dir \in BLOCKLIST_PREFIXES :
          ~HasComponent(last.sent[1].arguments.files[k], dir)

\* the latest tool call had a payload that was not valid JSON (decoded as {})
\* or lacks a field its descriptor requires, and its server has a session
MalformedCall ==
    /\ last.name # ""
    /\ ~HasAll(last.args, Required(last.name))
    /\ last.name = "mcp_run" \/ BoundServer(last.name, last.args) \in clients

\* C20: a tool call with a malformed payload raises no exception at the call
\* site, whatever the tool
C20_MalformedArguments == MalformedCall => last.raised # "KeyError"

\* the import of the remote tools has just failed and was reported
ImportFailed ==
    pc = "greet" /\ echo = <<"No se pudieron cargar las tools de Supabase">>

\* C21: when the import of the remote server's tools fails at whatever step,
\* startup goes on and the server has added no descriptor to the catalog and no
\* name to the remote routing set
C21_FailedImportAddsNothing ==
    ImportFailed => (OPENAI_TOOLS = StaticTools /\ REMOTE_SUPABASE_TOOL_NAMES = {})

\* chat() has passed its startup
AfterStartup ==
    \/ pc \in {"prompt", "tools", "follow", "done"}
    \/ pc = "crashed" /\ crash.at # "_openai_client"

CatalogNames == {OPENAI_TOOLS[i] : i \in 1..Len(OPENAI_TOOLS)}

\* C22: after startup the catalog holds the pass-through descriptor mcp_run,
\* which requires server, name and arguments, and a call to it that names a
\* connected server makes its request on that server's session
C22_PassThroughAlways ==
    AfterStartup =>
      /\ "mcp_run" \in CatalogNames
      /\ Required("mcp_run") = {"server", "name", "arguments"}
      /\ (/\ last.name = "mcp_run"
          /\ HasAll(last.args, {"server", "name"})
          /\ last.args.server \in clients) =>
            /\ Len(last.sent) = 1
            /\ last.sent[1].server = last.args.server
            /\ last.sent[1].name = last.args.name

\* C23: no name occurs twice in the merged catalog, and a call to a name that
\* a remote descriptor registered last goes to the remote server
C23_UniqueNames ==
    /\ \A i, j \in 1..Len(OPENAI_TOOLS) : i # j => OPENAI_TOOLS[i] # OPENAI_TOOLS[j]
    /\ (last.name \in REMOTE_SUPABASE_TOOL_NAMES /\ last.sent # <<>>) =>
         last.sent[1].server = "Supabase"

\* the only connected server is the catalog provider and the import of its two
\* descriptors has just succeeded
TwoImported ==
    /\ pc = "greet" /\ clients = {"Supabase"}
    /\ echo = <<"Tools de Supabase anadidas">>
    /\ Cardinality(REMOTE_SUPABASE_TOOL_NAMES) = 2

\* C24 as stated: the catalog then holds those two descriptors and the
\* pass-through, and nothing else
C24_ExactlyTwoPlusPassThrough ==
    TwoImported => CatalogNames = REMOTE_SUPABASE_TOOL_NAMES \cup {"mcp_run"}

\* C24 amended: the catalog then holds the statically declared descriptors, the
\* pass-through among them, followed by exactly those two
C24_StaticPlusTwo ==
    TwoImported =>
      /\ Len(OPENAI_TOOLS) = Len(StaticTools) + 2
      /\ SubSeq(OPENAI_TOOLS, 1, Len(StaticTools)) = StaticTools
      /\ \E i \in 1..Len(StaticTools) : StaticTools[i] = "mcp_run"
      /\ {OPENAI_TOOLS[i] : i \in (Len(StaticTools) + 1)..Len(OPENAI_TOOLS)}
           = REMOTE_SUPABASE_TOOL_NAMES

\* C24 witness: create_user and list_users were imported from the only
\* connected server
C24_Witness ==
    /\ TwoImported
    /\ REMOTE_SUPABASE_TOOL_NAMES = {"create_user", "list_users"}
    /\ OPENAI_TOOLS[Len(OPENAI_TOOLS)] = "list_users"

(***************************************************************************)
(* Claims about render_tool_result (checked under RenderSpec)              *)
(***************************************************************************)
\* the structured payload of the result under study, Null when it has none
StructuredPayload ==
    IF result.t # "dict" THEN Null
    ELSE LET sc == DGet(result, "structuredContent", EmptyDict) IN
         IF sc.t = "dict" /\ Has(sc, "result") THEN DGet(sc, "result", Null) ELSE Null

KeySet(d) == {d.keys[i] : i \in 1..Len(d.keys)}
\* a non-empty sequence of records
IsRecords(data) ==
    /\ data.t = "list" /\ data.v # <<>>
    /\ \A k \in 1..Len(data.v) : data.v[k].t = "dict"
\* ... that have identical field sets
IsUniformRecords(data) ==
    /\ IsRecords(data)
    /\ \A k \in 1..Len(data.v) : KeySet(data.v[k]) = KeySet(data.v[1])

\* the lines of a text
RECURSIVE Lines(_)
Lines(text) ==
    IF \A i \in 1..Len(text) : text[i] # "\n" THEN <<text>>
    ELSE LET i == CHOOSE i \in 1..Len(text) :
                    text[i] = "\n" /\ \A j \in 1..(i - 1) : text[j] # "\n"
         IN <<SubSeq(text, 1, i - 1)>> \o Lines(SubSeq(text, i + 1, Len(text)))
\* the cells of a table line are what its "|" delimit
CellCount(line) == Cardinality({i \in 1..Len(line) : line[i] = "|"}) - 1

\* C25: the rendering of a non-empty sequence of records with identical field
\* sets has a header line with the first record's field names, a separator
\* line and one line per record, and every line has as many cells as there are
\* fields
C25_TableShape ==
    (shown # NotRendered /\ IsUniformRecords(StructuredPayload)) =>
      LET data   == StructuredPayload.v
          fields == data[1].keys
          lines  == Lines(shown.out)
      IN /\ shown.raised = ""
         /\ Len(lines) = 2 + Len(data)
         /\ lines[1] = Row([i \in 1..Len(fields) |-> <<fields[i]>>])
         /\ \A l \in 1..Len(lines) : CellCount(lines[l]) = Len(fields)

\* C26: the rendering takes the first form that applies: a table for a
\* sequence of records, indented JSON of any other structured payload, the
\* text entries of content in their order, indented JSON of the whole result
C26_FormOrder ==
    (shown # NotRendered /\ result.t = "dict") =>
      LET data  == StructuredPayload
          parts == DGet(result, "content", List(<<>>))
      IN IF data # Null
           THEN IF data.t = "list" /\ data.v # <<>> /\ \E k \in 1..Len(data.v) : data.v[k].t = "dict"
                  THEN IF IsRecords(data) THEN shown.form = "table"
                                          ELSE shown = Rendering("json", <<>>, data)
                  ELSE shown = Rendering("json", <<>>, data)
           ELSE IF Texts(parts.v) # <<>>
                  THEN shown = Rendering("text", Join(Texts(parts.v), <<"\n">>), Null)
                  ELSE shown = Rendering("json", <<>>, result)

ListingPositions ==
    {i \in 1..Len(messages) :
       messages[i].role = "assistant" /\ "tool_calls" \in DOMAIN messages[i]}

\* C28: in the messages of the follow-up completion the tool-result messages
\* come right after the assistant message that lists the requests, one per
\* request, in the order of the requests, each with the id of its request
C28_ResultsFollowRequests ==
    /\ \A k \in 1..Len(messages) :
         messages[k].role = "tool" => \E i \in ListingPositions : i < k
    /\ \A i \in ListingPositions :
         LET calls == messages[i].tool_calls IN
         /\ Len(messages) = i + Len(calls)
         /\ \A j \in 1..Len(calls) :
              /\ messages[i + j].role = "tool"
              /\ messages[i + j].tool_call_id = calls[j]

\* a follow-up completion was asked with the results of two requests
C28_Witness ==
    \E i \in ListingPositions :
      /\ Len(messages[i].tool_calls) = 2
      /\ messages[Len(messages)].role = "tool"
      /\ messages[Len(messages)].tool_call_id = messages[i].tool_calls[2]

\* what is wrong with the configuration entry of the latest construction
AbsentEntry == ctor.name # "" /\ ~CtorMatch.found
MissingTransport == ctor.name # "" /\ CtorMatch.found /\ CtorMatch.transport = ""
UnsupportedTransport ==
    ctor.name # "" /\ CtorMatch.found /\ CtorMatch.transport \notin {"", "stdio", "http"}
MissingUrl ==
    ctor.name # "" /\ CtorMatch.found /\ CtorMatch.transport = "http" /\ CtorMatch.url = ""

\* the construction raised MCPConfigError with no child and nothing sent, the
\* server has no session and chat() is still in its startup loop
ConfigErrorOnly ==
    /\ Unregistered
    /\ ctor.exc = "MCPConfigError"
    /\ ~ctor.spawned /\ ctor.sent = 0
    /\ crash = NoCrash

\* C29 as stated: an absent entry, a missing or unsupported transport and a
\* missing http URL each fail the construction with a configuration error
\* before anything is spawned or sent, and the sessions made so far are kept
C29_ConfigErrors ==
    [][pc = "connect" =>
         ((AbsentEntry' \/ MissingTransport' \/ UnsupportedTransport' \/ MissingUrl')
            => (ConfigErrorOnly' /\ clients' = clients))]_vars

\* C29 amended: an absent entry, a transport other than stdio/http and a
\* missing http URL each fail the construction with a configuration error
\* before anything is spawned or sent, the sessions made so far are kept and
\* the loop goes on; an entry that names no transport is constructed as a stdio
\* session: with a command its child is spawned and, the handshake done, the
\* session is registered; without one it fails with KeyError, nothing spawned
C29_ConfigErrorsStdioDefault ==
    [][pc = "connect" =>
         /\ (AbsentEntry' \/ UnsupportedTransport' \/ MissingUrl')
              => (ConfigErrorOnly' /\ clients' = clients)
         /\ (MissingTransport' /\ CtorMatch'.command /\ ctor'.env.senv = DefaultStdioEnv)
              => /\ ctor'.ok /\ ctor'.spawned /\ ctor'.sent > 0
                 /\ clients' = clients \cup {ctor'.name}
         /\ (MissingTransport' /\ ~CtorMatch'.command)
              => /\ Unregistered' /\ ctor'.exc = "KeyError"
                 /\ ~ctor'.spawned /\ ctor'.sent = 0
                 /\ clients' = clients]_vars

\* the entry of the second server names an unsupported transport: the
\* construction failed with a configuration error, the first server keeps its
\* session and the loop is at the third server
C29_Witness ==
    /\ UnsupportedTransport /\ ConfigErrorOnly
    /\ ctor.name = "FS" /\ "SQLScout" \in clients
    /\ pc = "connect" /\ SERVERS[idx] = "Git"

\* C30: a tool call answered by an envelope with no result member (a JSON-RPC
\* error object) raises nothing: the envelope, pretty-printed, is the content
\* of the tool message for that call and the turn goes on to the next call or
\* to the follow-up completion
C30_EnvelopeWithoutResult ==
    last.kind = "rpc_error" =>
      /\ last.raised = "" /\ crash.at # "tools"
      /\ last.content = <<"envelope as JSON">>
      /\ tool_results_msgs # <<>>
      /\ Last(tool_results_msgs) =
            [role |-> "tool", tool_call_id |-> tool_calls[Len(tool_results_msgs)],
             content |-> last.content]
      /\ pc \in {"tools", "follow"} \/ crash.at = "follow"

\* the first of two calls was answered by an error object and the loop is at
\* the second call
C30_Witness ==
    /\ last.kind = "rpc_error" /\ last.sent # <<>>
    /\ Len(tool_calls) = 2 /\ Len(tool_results_msgs) = 1
    /\ pc = "tools"

\* no natural-language turn is under way and the latest one got a first reply
TurnOver ==
    /\ pc \notin {"tools", "follow"}
    /\ completions # <<>> /\ completions[1].returned

\* the second completion, when there is one, was asked after every requested
\* tool call had given its result and with no tool catalog
FollowAfterResults ==
    Len(completions) = 2 =>
      /\ ~completions[2].tools
      /\ completions[2].results = completions[1].requested
      /\ completions[1].requested > 0

\* C31: a turn calls the model once when the reply asks for no tool call and
\* twice when it does, the second time with no catalog and after all the
\* requested tool calls have given their results
C31_OneOrTwoCompletions ==
    /\ Len(completions) <= 2
    /\ completions # <<>> => completions[1].tools
    /\ FollowAfterResults
    /\ TurnOver =>
         Len(completions) = IF completions[1].requested = 0 THEN 1 ELSE 2

\* C31 apart from a tool call that raises: the same, for the turns in which no
\* exception left the tool loop
C31_UnlessToolRaises ==
    /\ Len(completions) <= 2
    /\ completions # <<>> => completions[1].tools
    /\ FollowAfterResults
    /\ (TurnOver /\ crash.at # "tools") =>
         Len(completions) = IF completions[1].requested = 0 THEN 1 ELSE 2

\* the entries a step put at the end of the memory
Appended(suffix) == memory' = memory \o suffix

\* a step that ends a natural-language turn with its final answer on the
\* terminal (no shortcut command prints "assistant:")
TurnCompleted ==
    /\ pc' = "prompt" /\ crash' = crash
    /\ pc \in {"prompt", "follow"}
    /\ echo' = <<"assistant">>

\* C32: the memory starts with the system entry and then holds user/assistant
\* pairs only; a step that completes a natural-language turn appends the user
\* entry and then the assistant entry, the greeting appends the system entry,
\* and every other step (shortcut commands, tool calls, failing turns) leaves
\* the memory as it is
C32_MemoryAppendOnly ==
    /\ [](\A i \in 1..Len(memory) :
            memory[i] = IF i = 1 THEN "system"
                        ELSE IF i % 2 = 0 THEN "user" ELSE "assistant")
    /\ [](pc \in {"prompt", "tools", "follow", "done"} => Len(memory) % 2 = 1)
    /\ [][ /\ TurnCompleted => Appended(<<"user", "assistant">>)
           /\ pc = "greet" => Appended(<<"system">>)
           /\ (~TurnCompleted /\ pc # "greet") => Appended(<<>>) ]_vars

\* two turns were completed, the second one with tool calls, and the memory
\* holds the system entry and the two pairs
C32_Witness ==
    /\ memory = <<"system", "user", "assistant", "user", "assistant">>
    /\ Len(completions) = 2 /\ completions[2].returned
    /\ pc = "prompt"

\* the one request the latest tool call must have made when it is forwarded
\* as issued to a server
ForwardedAsIssued(server, name, arguments) ==
    last.sent = <<[server |-> server, name |-> name, arguments |-> arguments]>>

\* the latest tool call is a pass-through with its server connected
PassThroughCall ==
    /\ last.name = "mcp_run"
    /\ HasAll(last.args, {"server", "name"})
    /\ last.args.server \in clients

\* the latest tool call names an imported remote descriptor
RemoteCall == last.name # "" /\ last.name \in REMOTE_SUPABASE_TOOL_NAMES

\* C33: a pass-through call sends the named server one request with the tool
\* name and the arguments object the model gave; a call for an imported remote
\* descriptor sends the Supabase session one request with the name and the
\* arguments as the model issued them
C33_ForwardedUnchanged ==
    /\ PassThroughCall =>
         ForwardedAsIssued(last.args.server, last.args.name,
                           Get(last.args, "arguments", EmptyArgs))
    /\ RemoteCall => ForwardedAsIssued("Supabase", last.name, last.args)

\* C33 for the remote lists that declare no name the router handles earlier
C33_UnlessShadowed ==
    (REMOTE_SUPABASE_TOOL_NAMES \cap (DOMAIN WrapperServer \cup {"mcp_run"}) = {}) =>
      C33_ForwardedUnchanged

(***************************************************************************)
(* Claims about the path wrappers (checked under PathSpec)                  *)
(***************************************************************************)
\* the text has no ".." segment and does not begin with a separator
PlainRelative(p) ==
    /\ \A i \in 1..Len(p.segs) : p.segs[i] # <<"..">>
    /\ p.drive # "" \/ ~p.rooted

\* p is root or lies below it
Inside(root, p) ==
    /\ p.drive = root.drive /\ p.rooted = root.rooted
    /\ Len(p.segs) >= Len(root.segs)
    /\ SubSeq(p.segs, 1, Len(root.segs)) = root.segs

\* C34: a file wrapper sends the FS session the normalized join of
\* WORKSPACE_ROOT and the relative path, which lies inside WORKSPACE_ROOT when
\* the relative path has no ".." segment and no leading separator; a
\* repository wrapper sends the Git session repo_path = REPO_ROOT whatever the
\* arguments hold
C34_RootedPaths ==
    (routed.ran /\ routed.sent # <<>>) =>
      LET sent == routed.sent[1] IN
      /\ issued.name \in FileWrappers =>
           /\ sent.server = "FS"
           /\ \A g \in 1..Len(sent.arguments.path.segs) :
                sent.arguments.path.segs[g] \notin {<<>>, <<".">>}
           /\ PlainRelative(issued.args.relative_path)
                => Inside(WORKSPACE_ROOT, sent.arguments.path)
      /\ issued.name \in RepoWrappers =>
           /\ sent.server = "Git"
           /\ sent.arguments.repo_path = REPO_ROOT

\* C34 where os.path is posixpath
C34_RootedPathsPosix == os_name = "posix" => C34_RootedPaths

\* the git_add requests the latest tool call sent from a wrapper route
WrapperGitAdds ==
    {i \in 1..Len(last.sent) :
       /\ last.name # "mcp_run" /\ last.name \notin REMOTE_SUPABASE_TOOL_NAMES
       /\ last.sent[i].server = "Git" /\ last.sent[i].name = "git_add"}

\* C35: a git_add request sent from a wrapper route lists files that passed
\* the safety filter, and never the whole repository (".")
C35_NeverAddAll ==
    \A i \in WrapperGitAdds :
      LET files == last.sent[i].arguments.files IN
      /\ files # <<>>
      /\ \A k \in 1..Len(files) : SaidSafe(files[k]) /\ files[k] # PathDot

\* C35 for the calls that are neither git_add_all nor hold "." in their list
C35_UnlessDot ==
    (/\ last.name # "git_add_all"
     /\ \A k \in 1..Len(Get(last.args, "files", <<>>)) : last.args.files[k] # PathDot)
      => C35_NeverAddAll

\* C36: a child that the latest construction spawned and that is still running
\* belongs to a session of the clients table; after a handshake that failed
\* the child runs no more
C36_NoOrphanChild ==
    (ctor.name # "" /\ ctor.spawned /\ ctor.alive) =>
      (ctor.ok /\ ctor.name \in clients)

\* C36 for the handshakes that fail because the child is gone
C36_UnlessChildAnswers ==
    (ctor.name # "" /\ ctor.env.senv.onInit \notin {"malformed", "log_then_reply"})
      => C36_NoOrphanChild

\* C37: rendering a tool result raises nothing, for the terminal and for the
\* tool message alike
C37_RenderTotal == shown.raised = "" /\ tool_message.raised = ""

\* C37 for the results that are objects whose structured list, when its first
\* entry is a record, holds records only
C37_UnlessStringOrMixed ==
    (/\ result.t = "dict"
     /\ LET data == StructuredPayload IN
        (data.t = "list" /\ data.v # <<>> /\ data.v[1].t = "dict") => IsRecords(data))
      => C37_RenderTotal

(***************************************************************************)
(* Claims about the bundled server (checked under ServerSpec)               *)
(***************************************************************************)
\* a tools/call was POSTed and answered
CallAnswered == posted.method = "tools/call" /\ answer # NoAnswer

\* the names the router forwards the static supabase_* descriptors to
ForwardTargets == {SupabaseForward[n] : n \in DOMAIN SupabaseForward}

NotFound(name) == ToolResult(TRUE, <<"Tool no encontrada", name>>)

\* C38: a tools/call for a name the router forwards a static supabase_*
\* descriptor to is for a tool the server advertises and dispatches: its
\* answer is not the "tool not found" result
C38_ForwardTargetsExist ==
    (CallAnswered /\ posted.params.name \in ForwardTargets) =>
      /\ \E i \in 1..Len(get_tools) : get_tools[i] = posted.params.name
      /\ posted.params.name \in Dispatched
      /\ answer.body.result # NotFound(posted.params.name)

\* C38 for the four descriptors other than supabase_list_policies and
\* supabase_set_role
C38_UnlessPoliciesOrRole ==
    (CallAnswered => posted.params.name \notin {"list_policies", "set_user_role"})
      => C38_ForwardTargetsExist

\* C39: every tools/call is answered with status 200 and a result envelope
\* that carries the id of the request and no error member; the result has
\* isError set when the tool is unknown or its handler raised
C39_CallAlwaysResult ==
    CallAnswered =>
      /\ answer.status = 200
      /\ DOMAIN answer.body = {"jsonrpc", "id", "result"}
      /\ answer.body.id = posted.id
      /\ posted.params.name \notin Dispatched => answer.body.result.isError
      /\ (/\ posted.params.name \in Dispatched
          /\ posted.params.name # "bulk_invite_users"
          /\ Head(upstream) = "non200_array") => answer.body.result.isError

\* an exception inside the create_user handler was answered with an error
\* result under status 200
C39_Witness ==
    /\ CallAnswered /\ posted.params.name = "create_user"
    /\ Head(upstream) = "non200_array"
    /\ answer.status = 200 /\ answer.body.id = posted.id
    /\ answer.body.result = ToolResult(TRUE, <<"Error ejecutando", "create_user">>)

\* a bulk invitation with at least one email was POSTed and answered
BulkAnswered ==
    /\ CallAnswered /\ IsBulk(posted)
    /\ Get(posted.params.arguments, "emails", <<>>) # <<>>

\* the entries of list at the positions of keep, in order
Pick(list, keep) ==
    LET n == Len(list)
        F[i \in 0..n] ==
          IF i = 0 THEN <<>>
          ELSE IF i \in keep THEN Append(F[i - 1], list[i]) ELSE F[i - 1]
    IN F[n]

Emails(entries) == [i \in 1..Len(entries) |-> entries[i].email]

\* C40: the answer to a bulk invitation lists every email once, in successful
\* or in failed, each list in the order of the input, and the two totals add
\* up to the number of emails
C40_EveryEmailRecorded ==
    BulkAnswered =>
      LET emails == posted.params.arguments.emails
          res    == answer.body.result
      IN
      /\ "structuredContent" \in DOMAIN res
      /\ LET sc == res.structuredContent IN
         /\ \E keep \in SUBSET (1..Len(emails)) :
              /\ Emails(sc.successful) = Pick(emails, keep)
              /\ Emails(sc.failed) = Pick(emails, (1..Len(emails)) \ keep)
         /\ sc.total_sent = Len(sc.successful)
         /\ sc.total_failed = Len(sc.failed)
         /\ sc.total_sent + sc.total_failed = Len(emails)

\* C40 when every answer of the API other than 200 has a JSON object or no
\* JSON as its body
C40_UnlessBodyNoObject ==
    (\A i \in 1..Len(upstream) : upstream[i] # "non200_array")
      => C40_EveryEmailRecorded

====
